---- MODULE Spec2Model ----
(***************************************************************************)
(* StrataScribe: roster-to-reference matching and stratagem applicability. *)
(* Two request handlers are modelled side by side:                         *)
(*   - the legacy parser   sublib/battle_parse.py  (parse_battlescribe)    *)
(*   - the service layer   app/services/roster_service.py                  *)
(*                         (RosterProcessingService.process_roster_file)   *)
(*                                                                         *)
(* A Python string is a sequence of atoms (words and separators), so that  *)
(* lower(), replace(), strip(), split() and the substring test `a in b`    *)
(* are computed and not assumed.  None is the one-atom string NoneStr.     *)
(***************************************************************************)
EXTENDS Integers, Sequences, FiniteSets, TLC

VARIABLES
    request,                  \* the upload being served: [roster, form]
    pc,                       \* "uploaded", or the handler that served `request`
    served,                   \* number of requests this process has served
    _request_options,         \* battle_parse._request_options
    _roster_list,             \* battle_parse._roster_list
    _full_stratagems_list,    \* battle_parse._full_stratagems_list
    _empty_stratagems_list,   \* battle_parse._empty_stratagems_list
    ignore_phases_list,       \* wh40k_lists.ignore_phases_list
    current_army_of_renown,   \* wh40k_lists.current_army_of_renown
    _factions_cache,          \* StratagemRepository._factions_cache
    _stratagems_cache,        \* StratagemRepository._stratagems_cache
    legacy_result,            \* value returned by parse_battlescribe
    service_result,           \* value returned by process_roster_file
    log,                      \* warning lines written while serving `request`
    app,                      \* the application: "app" (app/) or "main" (main.py)
    caller,                   \* "route" (upload_file) or "direct" (a call of the handler)
    upload,                   \* the uploaded file: [ext, zip, member, content]
    previous_copy,            \* a copy of the table was on disk when the upload arrived
    table,                    \* the table file on disk
    step,                     \* how far the upload has got
    attempt,                  \* _download_file: attempt / retry_count
    http_requests,            \* requests.get calls of the current _download_file
    last_response,            \* what the last requests.get produced
    download_result,          \* how _download_file ended
    raised,                   \* class of the exception that left the handler
    report,                   \* the handler returned its result
    response,                 \* what upload_file rendered
    _datasheets_cache,        \* StratagemRepository._datasheets_cache
    _datasheet_stratagems_cache, \* StratagemRepository._datasheet_stratagems_cache
    loader_calls,             \* loader calls of each getter since the caches were last cleared
    last_call,                \* the last call on the repository and what it returned
    calls,                    \* number of calls made on the repository
    upstream,                 \* version of the dataset the site serves
    disk,                     \* content of each file of the data directory
    file_list,                \* _file_list.json: age of the download time of each file
    refresh,                  \* each request: where its refresh is, and its locals
    overlapped,               \* two requests have been under way at the same time
    lost,                     \* a write of the file list has undone an entry of another file
    download_order,           \* the files in the order of their download times, oldest first
    threads                   \* each server thread: where its parse_battlescribe call is, and its locals

vars == << request, pc, served, _request_options, _roster_list, _full_stratagems_list,
           _empty_stratagems_list, ignore_phases_list, current_army_of_renown,
           _factions_cache, _stratagems_cache, legacy_result, service_result, log,
           app, caller, upload, previous_copy, table, step, attempt, http_requests,
           last_response, download_result, raised, report, response,
           _datasheets_cache, _datasheet_stratagems_cache, loader_calls, last_call,
           calls, upstream, disk, file_list, refresh, overlapped, lost, download_order,
           threads >>

\* the variables of roster processing
roster_vars == << request, pc, served, _request_options, _roster_list,
                  _full_stratagems_list, _empty_stratagems_list, ignore_phases_list,
                  current_army_of_renown, _factions_cache, _stratagems_cache,
                  legacy_result, service_result, log >>

\* the caches no roster handler reads
datasheet_caches == << _datasheets_cache, _datasheet_stratagems_cache >>

\* what is recorded of the calls made on the repository directly
repository_calls == << loader_calls, last_call, calls >>

\* the variables of the dataset refresh
refresh_vars == << upstream, disk, file_list, download_order, refresh, overlapped, lost >>

\* the variables of file upload and table download
upload_vars == << app, caller, upload, previous_copy, table, step, attempt,
                  http_requests, last_response, download_result, raised, report,
                  response >>

-----------------------------------------------------------------------------
(* Bounds *)

MaxForces == 2

\* requests served by one process in the multi-request specification
MaxRuns == 2

-----------------------------------------------------------------------------
(* Python string primitives over atom sequences *)

NoneStr == << "<None>" >>

EmptyStr == << >>

\* " ".join(words)
W(words) ==
    [i \in 1..(IF Len(words) = 0 THEN 0 ELSE 2 * Len(words) - 1) |->
        IF i % 2 = 1 THEN words[(i + 1) \div 2] ELSE " "]

\* str.lower(), atom by atom
LowerAtom(a) ==
    CASE a = "Core" -> "core"
      [] a = "CORE" -> "core"
      [] a = "Stratagem" -> "stratagem"
      [] a = "Battle" -> "battle"
      [] a = "Tactic" -> "tactic"
      [] a = "Strategic" -> "strategic"
      [] a = "Ploy" -> "ploy"
      [] a = "Epic" -> "epic"
      [] a = "Deed" -> "deed"
      [] a = "Requisition" -> "requisition"
      [] a = "Wargear" -> "wargear"
      [] a = "Crusade" -> "crusade"
      [] a = "Boarding" -> "boarding"
      [] a = "Actions" -> "actions"
      [] a = "(Supplement)" -> "(supplement)"
      [] a = "Vanguard" -> "vanguard"
      [] a = "Spearhead" -> "spearhead"
      [] a = "Gladius" -> "gladius"
      [] a = "Anvil" -> "anvil"
      [] a = "Siege" -> "siege"
      [] a = "Task" -> "task"
      [] a = "Force" -> "force"
      [] a = "Detachment" -> "detachment"
      [] a = "Space" -> "space"
      [] a = "Marines" -> "marines"
      [] a = "Necrons" -> "necrons"
      [] a = "Necron" -> "necron"
      [] a = "Imperium" -> "imperium"
      [] a = "Chaos" -> "chaos"
      [] a = "Adeptus" -> "adeptus"
      [] a = "Astartes" -> "astartes"
      [] a = "Ultramarines" -> "ultramarines"
      [] a = "Xenos" -> "xenos"
      [] a = "Captain" -> "captain"
      [] a = "Chapter" -> "chapter"
      [] a = "Master" -> "master"
      [] a = "Intercessor" -> "intercessor"
      [] a = "Squad" -> "squad"
      [] a = "Warriors" -> "warriors"
      [] a = "Character" -> "character"
      [] a = "Battleline" -> "battleline"
      [] a = "Configuration" -> "configuration"
      [] a = "Faction:" -> "faction:"
      [] a = "Homebrew" -> "homebrew"
      [] a = "Host" -> "host"
      [] OTHER -> a

Lower(s) == [i \in DOMAIN s |-> LowerAtom(s[i])]

\* needle in hay
Contains(hay, needle) ==
    \E i \in 1..(Len(hay) - Len(needle) + 1) :
        SubSeq(hay, i, i + Len(needle) - 1) = needle

\* s.replace(needle, repl)
RECURSIVE ReplaceSub(_, _, _)
ReplaceSub(s, needle, repl) ==
    IF Len(needle) = 0 \/ Len(s) < Len(needle) THEN s
    ELSE IF SubSeq(s, 1, Len(needle)) = needle
         THEN repl \o ReplaceSub(SubSeq(s, Len(needle) + 1, Len(s)), needle, repl)
         ELSE << Head(s) >> \o ReplaceSub(Tail(s), needle, repl)

RECURSIVE LStrip(_)
LStrip(s) == IF s # << >> /\ Head(s) = " " THEN LStrip(Tail(s)) ELSE s

RECURSIVE RStrip(_)
RStrip(s) ==
    IF s # << >> /\ s[Len(s)] = " " THEN RStrip(SubSeq(s, 1, Len(s) - 1)) ELSE s

\* str.strip()
Strip(s) == RStrip(LStrip(s))

\* s.split(sep) for a separator that is one atom
RECURSIVE SplitAcc(_, _, _, _)
SplitAcc(s, sep, cur, acc) ==
    IF s = << >> THEN Append(acc, cur)
    ELSE IF Head(s) = sep THEN SplitAcc(Tail(s), sep, << >>, Append(acc, cur))
    ELSE SplitAcc(Tail(s), sep, Append(cur, Head(s)), acc)

Split(s, sep) == SplitAcc(s, sep, << >>, << >>)

\* x in list
InList(x, list) == \E i \in DOMAIN list : list[i] = x

\* list.index(x)
IndexOf(x, list) == CHOOSE i \in DOMAIN list : list[i] = x /\ \A j \in 1..(i - 1) : list[j] # x

\* truthiness of an optional string
Truthy(s) == s # NoneStr /\ s # EmptyStr

-----------------------------------------------------------------------------
(* Game constants (app/config/game_constants.py, mirrored by wh40k_lists) *)

phases_list == <<
    <<"Any time">>, <<"Before battle">>, <<"During deployment">>,
    <<"At the start of battle round">>, <<"Any phase">>,
    <<"Any of your phases">>, <<"At the start of your turn">>,
    <<"At the start of enemy turn">>, <<"Start of any phase">>,
    <<"Command phase">>, <<"Start of the Command phase">>,
    <<"End of the Command phase">>, <<"Enemy Command phase">>,
    <<"Movement phase">>, <<"Enemy Movement phase">>, <<"Psychic phase">>,
    <<"Enemy Psychic phase">>, <<"Shooting phase">>,
    <<"Enemy Shooting phase">>, <<"Shooting", " or ", "Fight phase">>,
    <<"Being targeted">>, <<"Charge phase">>,
    <<"Start of the Charge phase">>, <<"Enemy Charge phase">>,
    <<"Fight phase">>, <<"Start of the Fight phase">>,
    <<"Enemy Fight phase">>, <<"Morale phase">>, <<"Enemy Morale phase">>,
    <<"Taking casualties">>, <<"Enemy taking casualties">>,
    <<"End of your turn">>, <<"End of enemy turn">>, <<"End of the turn">>,
    <<"End of the phase">>, <<"End of the battle round">>,
    <<"End of the Battle">>,
    <<"After enemy unit ends Normal, Advance", " or ", "Fall Back move">>,
    <<"End of any phase">> >>

valid_stratagems_type == <<
    W(<<"Battle", "Tactic", "Stratagem">>),
    W(<<"Strategic", "Ploy", "Stratagem">>),
    W(<<"Epic", "Deed", "Stratagem">>),
    W(<<"Requisition", "Stratagem">>),
    W(<<"Wargear", "Stratagem">>),
    W(<<"Core", "Stratagem">>) >>

invalid_stratagems_type == <<
    <<"(Supplement)">>,
    W(<<"Crusher", "Stampede">>),
    <<"Crusade">>,
    W(<<"Fallen", "Angels">>),
    W(<<"Boarding", "Actions">>) >>

army_of_renown_list == <<
    W(<<"Kill", "Team", "Strike", "Force">>),
    W(<<"Vanguard", "Spearhead">>),
    W(<<"Mechanicus", "Defence", "Cohort">>),
    W(<<"Skitarii", "Veteran", "Cohort">>),
    W(<<"Freeblade", "Lance">>),
    W(<<"Disciples", "of", "Belakor">>),
    W(<<"Terminus", "Est", "Assault", "Force">>),
    W(<<"Warpmeld", "Pact">>),
    W(<<"Coteries", "of", "the", "Haemonculi">>),
    W(<<"Cult", "of", "the", "Cryptek">>),
    W(<<"Annihilation", "Legion">>),
    W(<<"Speed", "Freeks", "Speed", "Mob">>),
    W(<<"Cogs", "of", "Vashtorr">>) >>

selection_non_unit_types == <<
    <<"**Chapter Selector**">>,
    W(<<"Game", "Type">>),
    W(<<"Detachment", "Command", "Cost">>),
    W(<<"Battle", "Size">>),
    W(<<"Arks", "of", "Omen", "Compulsory", "Type">>) >>

subfaction_types == <<
    W(<<"Order", "Convictions">>), W(<<"Forge", "World", "Choice">>),
    <<"Brotherhood">>, W(<<"Noble", "Household">>), <<"Chapter">>,
    W(<<"Chaos", "Allegiance">>), W(<<"Dread", "Household">>), <<"Legion">>,
    W(<<"Plague", "Company">>), W(<<"Cult", "of", "the", "Legion">>),
    W(<<"Craftworld", "Selection">>), <<"Kabal">>, W(<<"Wych", "Cult">>),
    W(<<"Haemonculus", "Coven">>), W(<<"Cult", "Creed">>), <<"League">>,
    W(<<"Dynasty", "Choice">>), W(<<"Clan", "Kultur">>),
    W(<<"Sept", "Choice">>), W(<<"Hive", "Fleet">>) >>

\* The rename tables are functions on strings; the keys listed are the ones
\* whose source or target names occur in the reference tables below.
unit_rename_keys == {
    W(<<"Chapter", "Master">>),
    W(<<"Primaris", "Chapter", "Master">>),
    W(<<"Armiger", "Helverins">>) }

unit_rename_dict(name) ==
    CASE name = W(<<"Chapter", "Master">>) -> <<"Captain">>
      [] name = W(<<"Primaris", "Chapter", "Master">>) -> W(<<"Primaris", "Captain">>)
      [] name = W(<<"Armiger", "Helverins">>) -> W(<<"Armiger", "Helverin">>)
      [] OTHER -> name

subfaction_rename_keys == {
    <<"Ultramarines">>, W(<<"Dark", "Angels">>), W(<<"Blood", "Angels">>),
    <<"Deathwatch">>, <<"Necrons">>, <<"Cadian">> }

subfaction_rename_dict(name) ==
    CASE name = <<"Ultramarines">> -> W(<<"Space", "Marines">>)
      [] name = W(<<"Dark", "Angels">>) -> W(<<"Space", "Marines">>)
      [] name = W(<<"Blood", "Angels">>) -> W(<<"Space", "Marines">>)
      [] name = <<"Deathwatch">> -> W(<<"Space", "Marines">>)
      [] name = <<"Necrons">> -> <<"Necrons">>
      [] name = <<"Cadian">> -> W(<<"Astra", "Militarum">>)
      [] OTHER -> name

OPTION_VALUE_ON == "on"

PHASE_BEFORE_BATTLE == <<"Before battle">>

STRATAGEM_TYPE_CORE_LOWER == <<"core">>

-----------------------------------------------------------------------------
(* Reference tables, as get_dict_from_csv returns them (rows in file order) *)

Dash == " - "

TBattleTactic == W(<<"Battle", "Tactic", "Stratagem">>)
TStrategicPloy == W(<<"Strategic", "Ploy", "Stratagem">>)
TEpicDeed == W(<<"Epic", "Deed", "Stratagem">>)
TRequisition == W(<<"Requisition", "Stratagem">>)
TWargear == W(<<"Wargear", "Stratagem">>)

GladiusTaskForce == W(<<"Gladius", "Task", "Force">>)
AnvilSiegeForce == W(<<"Anvil", "Siege", "Force">>)
VanguardSpearhead == W(<<"Vanguard", "Spearhead">>)
SpaceMarines == W(<<"Space", "Marines">>)

Strat(id, name, type, phase, faction, subfaction, det, detid) ==
    [id |-> id, name |-> name, type |-> type, phase |-> phase,
     faction_id |-> faction, subfaction_id |-> subfaction,
     detachment |-> det, detachment_id |-> detid]

_stratagems_dict == <<
    Strat(1, <<"ARMOUR OF CONTEMPT">>, TBattleTactic,
          <<"Command phase">>, "SM", EmptyStr, EmptyStr, EmptyStr),
    Strat(2, <<"COMMAND RE-ROLL">>, <<"Core", Dash>> \o TBattleTactic,
          <<"Any phase">>, "", EmptyStr, EmptyStr, EmptyStr),
    Strat(3, <<"NEW ORDERS">>, <<"Core", Dash>> \o TStrategicPloy,
          <<"End of the Command phase">>, "", EmptyStr, EmptyStr, EmptyStr),
    Strat(4, <<"STORM OF FIRE">>, GladiusTaskForce \o <<Dash>> \o TBattleTactic,
          <<"Shooting phase">>, "SM", EmptyStr, GladiusTaskForce, <<"G1">>),
    Strat(5, <<"ONLY IN DEATH">>, GladiusTaskForce \o <<Dash>> \o TStrategicPloy,
          <<"Fight phase">>, "SM", EmptyStr, GladiusTaskForce, <<"G1">>),
    Strat(6, <<"RIGID DISCIPLINE">>, AnvilSiegeForce \o <<Dash>> \o TStrategicPloy,
          <<"Enemy Movement phase">>, "SM", EmptyStr, AnvilSiegeForce, <<"A1">>),
    Strat(7, <<"BATTLE DRILL RECALL">>, <<"Core", Dash>> \o TEpicDeed,
          <<"Enemy Shooting phase">>, "SM", EmptyStr, AnvilSiegeForce, <<"A1">>),
    Strat(8, <<"DEATH TO THE TRAITORS">>, TEpicDeed,
          <<"Charge phase">>, "SM", EmptyStr, EmptyStr, EmptyStr),
    Strat(9, <<"SHADOW STRIKE">>, VanguardSpearhead \o <<Dash>> \o TBattleTactic,
          <<"Movement phase">>, "SM", EmptyStr, EmptyStr, EmptyStr),
    Strat(10, <<"RELIC ACQUISITION">>, <<"Crusade", Dash>> \o TRequisition,
          <<"Any time">>, "SM", EmptyStr, EmptyStr, EmptyStr),
    Strat(11, <<"GUERRILLA TACTICS">>,
          VanguardSpearhead \o <<" ", "(Supplement)", Dash>> \o TStrategicPloy,
          <<"End of your turn">>, "SM", EmptyStr, EmptyStr, EmptyStr),
    Strat(12, <<"RELICS OF THE CHAPTER">>, TRequisition,
          <<"Before battle">>, "SM", EmptyStr, EmptyStr, EmptyStr),
    Strat(13, <<"HONOUR THE CHAPTER">>, TWargear,
          <<"Shooting", " or ", "Fight phase">>, "SM", EmptyStr, EmptyStr, EmptyStr),
    Strat(14, <<"PROTOCOL OF THE HUNGRY VOID">>, TStrategicPloy,
          <<"Fight phase">>, "NEC", EmptyStr, EmptyStr, EmptyStr),
    Strat(15, <<"SQUAD TACTICS">>, GladiusTaskForce \o <<Dash, "Core", " ", "Stratagem">>,
          <<"Enemy Movement phase">>, "SM", EmptyStr, GladiusTaskForce, <<"G1">>),
    Strat(16, <<"HONOURED BY MACRAGGE">>, TRequisition,
          <<"Command phase">>, "SM", <<"CHUL">>, EmptyStr, EmptyStr),
    Strat(17, <<"UNCLASSIFIED">>, <<"Stratagem">>,
          <<"Command phase">>, "SM", EmptyStr, EmptyStr, EmptyStr),
    Strat(18, <<"HULL BREACH">>, W(<<"Boarding", "Actions">>) \o <<Dash>> \o TBattleTactic,
          <<"Movement phase">>, "SM", EmptyStr, EmptyStr, EmptyStr),
    Strat(19, <<"FIRE OVERWATCH">>, <<"Core", Dash>> \o TStrategicPloy,
          <<"Enemy Movement phase">>, "", EmptyStr, EmptyStr, EmptyStr),
    Strat(20, <<"PREPARED POSITIONS">>, TStrategicPloy,
          <<"Before battle">>, "SM", EmptyStr, EmptyStr, EmptyStr),
    Strat(21, <<"DISRUPTION FIELDS">>, TBattleTactic,
          <<"Your Movement phase">>, "NEC", EmptyStr, EmptyStr, EmptyStr) >>

\* init_parse reads Stratagems.csv twice: the phase table is the same rows
_stratagem_phases_dict == _stratagems_dict

Link(d, s) == [datasheet_id |-> d, stratagem_id |-> s]

_datasheets_stratagems_dict == <<
    Link("D1", 1), Link("D2", 1), Link("D2", 4), Link("D1", 6),
    Link("D1", 9), Link("D2", 10), Link("D1", 11), Link("D2", 12),
    Link("D2", 13), Link("D3", 14), Link("D1", 16), Link("D1", 17),
    Link("D2", 18), Link("D4", 14), Link("D2", 19), Link("D3", 21) >>

_datasheets_dict == <<
    [id |-> "D1", name |-> <<"Captain">>, faction_id |-> "SM", keywords |-> << >>],
    [id |-> "D2", name |-> W(<<"Intercessor", "Squad">>), faction_id |-> "SM", keywords |-> << >>],
    [id |-> "D3", name |-> W(<<"Necron", "Warriors">>), faction_id |-> "NEC", keywords |-> << >>],
    [id |-> "D4", name |-> <<"Captain">>, faction_id |-> "NEC", keywords |-> << >>] >>

_factions_dict == <<
    [id |-> "SM", name |-> SpaceMarines, parent_id |-> ""],
    [id |-> "NEC", name |-> <<"Necrons">>, parent_id |-> ""],
    [id |-> "CHUL", name |-> <<"Ultramarines">>, parent_id |-> "SM"] >>

_detachment_abilities_dict == <<
    [detachment |-> GladiusTaskForce, detachment_id |-> <<"G1">>],
    [detachment |-> AnvilSiegeForce, detachment_id |-> <<"A1">>] >>

-----------------------------------------------------------------------------
(* Uploaded rosters, in the shape xmltodict gives them *)

Sel(name, cats, subs) == [name |-> name, categories |-> cats, selections |-> subs]

Force(cat, sels) == [catalogueName |-> cat, selections |-> sels]

SelBattleSize == Sel(W(<<"Battle", "Size">>), << <<"Configuration">> >>, << >>)
SelDetachment(name) == Sel(<<"Detachment">>, << <<"Configuration">> >>, << name >>)
SelArmyOfRenown(name) == Sel(<<"Army of Renown">>, << <<"Configuration">> >>, << name >>)
SelCaptain == Sel(<<"Captain">>, << <<"Character">> >>, << >>)
SelChapterMaster == Sel(W(<<"Chapter", "Master">>), << <<"Character">> >>, << >>)
SelIntercessors == Sel(W(<<"Intercessor", "Squad">>), << <<"Battleline">> >>, << >>)

CatSpaceMarines == <<"Imperium", " - ">> \o SpaceMarines
CatUnknown == <<"Xenos", " - ", "Unaligned">>

ForceGladius ==
    Force(CatSpaceMarines,
          << SelBattleSize, SelDetachment(GladiusTaskForce), SelCaptain, SelIntercessors >>)

\* two units of the same name, and a variant chosen in a sub-selection
ForceAnvilRenown ==
    Force(CatSpaceMarines,
          << SelDetachment(AnvilSiegeForce), SelArmyOfRenown(VanguardSpearhead),
             SelCaptain, SelCaptain >>)

HomebrewHost == W(<<"Homebrew", "Host">>)

\* a catalogue that matches no faction, a detachment that is in no table
ForceUnknown ==
    Force(CatUnknown, << SelDetachment(HomebrewHost), SelCaptain, SelIntercessors >>)

\* a variant named in the selection itself, no detachment, a renamed unit
ForceRenownOnly ==
    Force(CatSpaceMarines,
          << Sel(<<"Army of Renown", " - ">> \o VanguardSpearhead,
                 << <<"Configuration">> >>, << >>),
             SelIntercessors, SelChapterMaster >>)

ForceTemplates ==
    { ForceGladius, ForceAnvilRenown, ForceUnknown, ForceRenownOnly }

RECURSIVE SeqsUpTo(_, _)
SeqsUpTo(S, n) ==
    IF n = 0 THEN { << >> }
    ELSE LET shorter == SeqsUpTo(S, n - 1)
         IN  shorter \cup { Append(q, x) : q \in { r \in shorter : Len(r) = n - 1 }, x \in S }

Rosters == SeqsUpTo(ForceTemplates, MaxForces) \ { << >> }

OnOff == { OPTION_VALUE_ON, "" }

Forms ==
    [show_units : OnOff, show_phases : OnOff, show_empty : OnOff,
     show_core : OnOff, dont_show_renown : OnOff, dont_show_before : OnOff]

\* request.form with no recognised key set (also the initial `{}`)
EmptyForm ==
    [show_units |-> "", show_phases |-> "", show_empty |-> "",
     show_core |-> "", dont_show_renown |-> "", dont_show_before |-> ""]

Requests == [roster : Rosters, form : Forms]

-----------------------------------------------------------------------------
(* Python containers *)

\* first index of seq whose element satisfies P, 0 if there is none
FirstIndex(seq, P(_)) ==
    LET hits == SelectSeq([i \in DOMAIN seq |-> i], LAMBDA i : P(seq[i]))
    IN  IF hits = << >> THEN 0 ELSE hits[1]

\* an insertion-ordered dict is a sequence of [key, val] with distinct keys

\* concatenation of f(1) .. f(n)
FlatMap(n, f(_)) ==
    LET F[k \in 0..n] == IF k = 0 THEN << >> ELSE F[k - 1] \o f(k)
    IN  F[n]

\* `for x in seq: if x not in out: out.append(x)`
Dedup(seq) ==
    LET first == SelectSeq([i \in DOMAIN seq |-> i],
                     LAMBDA i : \A j \in 1..(i - 1) : seq[j] # seq[i])
    IN  [k \in DOMAIN first |-> seq[first[k]]]

\* the values of the pairs [key, val] stored under key k, in order
ValuesOf(pairs, k) ==
    LET mine == SelectSeq(pairs, LAMBDA pair : pair.key = k)
    IN  [i \in DOMAIN mine |-> mine[i].val]

\* sorted(seq, key) : a stable sort
SortByKey(seq, key(_)) ==
    LET before(i, j) == \/ key(seq[i]) < key(seq[j])
                        \/ key(seq[i]) = key(seq[j]) /\ i < j
        rank(j) == Cardinality({ i \in DOMAIN seq : before(i, j) }) + 1
    IN  [p \in DOMAIN seq |-> seq[CHOOSE j \in DOMAIN seq : rank(j) = p]]

-----------------------------------------------------------------------------
(* sublib/battle_parse.py : lookups and the validity check *)

NoStratagem == Strat(0, EmptyStr, EmptyStr, NoneStr, "", EmptyStr, EmptyStr, EmptyStr)

NoFaction == [id |-> "", name |-> EmptyStr, parent_id |-> ""]

FirstLettersAtom(a) ==
    CASE a = "Command phase" -> "Cp"
      [] a = "Any phase" -> "Ap"
      [] a = "Any time" -> "At"
      [] a = "End of the Command phase" -> "EotCp"
      [] a = "Shooting phase" -> "Sp"
      [] a = "Fight phase" -> "Fp"
      [] a = "Enemy Movement phase" -> "EMp"
      [] a = "Enemy Shooting phase" -> "ESp"
      [] a = "Charge phase" -> "Cp"
      [] a = "Movement phase" -> "Mp"
      [] a = "End of your turn" -> "Eoyt"
      [] a = "Before battle" -> "Bb"
      [] a = "Shooting" -> "S"
      [] a = " or " -> "o"
      [] OTHER -> a

get_first_letters(line) == [i \in DOMAIN line |-> FirstLettersAtom(line[i])]

\* the "[n]" tags appended to the name in the unit-indexed view
UnitTags(stratagem_id, stratagems_list, units_list) ==
    LET elems == SelectSeq(stratagems_list,
                     LAMBDA stratagem_elem : stratagem_elem.stratagem_id = stratagem_id)
    IN  FlatMap(Len(elems),
            LAMBDA i :
                LET unit_elems == SelectSeq(units_list,
                                      LAMBDA unit_elem : unit_elem.id = elems[i].datasheet_id)
                IN  FlatMap(Len(unit_elems),
                        LAMBDA j : << "[", ToString(IndexOf(unit_elems[j], units_list)), "]" >>))

\* the " [Xy]" tags appended to the name when phases are shown
PhaseTags(stratagem_id) ==
    LET rows == SelectSeq(_stratagem_phases_dict,
                    LAMBDA stratagem_phase : stratagem_phase.id = stratagem_id)
    IN  FlatMap(Len(rows),
            LAMBDA k : << " [" >> \o get_first_letters(rows[k].phase) \o << "]" >>)

\* has_lists is FALSE when stratagems_list and units_list are left None
_get_stratagem_from_id(stratagem_id, stratagems_list, units_list, has_lists, clean_stratagem, options) ==
    LET Copy(stratagem) ==
            IF ~clean_stratagem /\ options.show_units = OPTION_VALUE_ON /\ has_lists
            THEN [stratagem EXCEPT
                    !.name = @ \o UnitTags(stratagem_id, stratagems_list, units_list)]
            ELSE IF ~clean_stratagem /\ options.show_phases = OPTION_VALUE_ON /\ ~has_lists
            THEN [stratagem EXCEPT !.name = @ \o PhaseTags(stratagem_id)]
            ELSE stratagem
        Found(rows) == IF rows = << >> THEN NoStratagem ELSE Copy(rows[1])
    IN  Found(SelectSeq(_stratagems_dict, LAMBDA st : st.id = stratagem_id))

_get_stratagem_phase(stratagem_id) ==
    LET Phase(rows) == IF rows = << >> THEN NoneStr ELSE rows[1].phase
    IN  Phase(SelectSeq(_stratagem_phases_dict, LAMBDA row : row.id = stratagem_id))

\* the validity check without the rejection of the other variants' rules
_stratagem_is_valid_any_renown(stratagem_id, options, army_of_renown, ignored) ==
    LET Check(full_stratagem, stratagem_type) ==
            IF full_stratagem = NoStratagem THEN FALSE
            ELSE IF \E i \in DOMAIN invalid_stratagems_type :
                        Contains(stratagem_type, invalid_stratagems_type[i])
            THEN FALSE
            ELSE IF InList(_get_stratagem_phase(stratagem_id), ignored) THEN FALSE
            ELSE /\ stratagem_type # << "Stratagem" >>
                 /\ \E i \in DOMAIN valid_stratagems_type :
                        Contains(stratagem_type, valid_stratagems_type[i])
        Typed(full_stratagem) == Check(full_stratagem, full_stratagem.type)
    IN  Typed(_get_stratagem_from_id(stratagem_id, << >>, << >>, FALSE, FALSE, options))

_stratagem_is_valid(stratagem_id, options, army_of_renown, ignored) ==
    LET Check(full_stratagem, stratagem_type) ==
            IF full_stratagem = NoStratagem THEN FALSE
            ELSE IF \E i \in DOMAIN invalid_stratagems_type :
                        Contains(stratagem_type, invalid_stratagems_type[i])
            THEN FALSE
            ELSE IF /\ options.dont_show_renown # OPTION_VALUE_ON
                    /\ Truthy(army_of_renown)
                    /\ Contains(stratagem_type, army_of_renown)
            THEN TRUE
            ELSE IF /\ options.dont_show_renown # OPTION_VALUE_ON
                    /\ \E i \in DOMAIN army_of_renown_list :
                           Contains(stratagem_type, army_of_renown_list[i])
            THEN FALSE
            ELSE IF InList(_get_stratagem_phase(stratagem_id), ignored) THEN FALSE
            ELSE /\ stratagem_type # << "Stratagem" >>
                 /\ \E i \in DOMAIN valid_stratagems_type :
                        Contains(stratagem_type, valid_stratagems_type[i])
        Typed(full_stratagem) == Check(full_stratagem, full_stratagem.type)
    IN  Typed(_get_stratagem_from_id(stratagem_id, << >>, << >>, FALSE, FALSE, options))

_find_empty_stratagems(options, army_of_renown, ignored) ==
    SelectSeq(_stratagems_dict,
        LAMBDA stratagem :
            /\ _stratagem_is_valid(stratagem.id, options, army_of_renown, ignored)
            /\ ~\E i \in DOMAIN _datasheets_stratagems_dict :
                   _datasheets_stratagems_dict[i].stratagem_id = stratagem.id)

-----------------------------------------------------------------------------
(* sublib/battle_parse.py : roster extraction *)

safe_lower(val) == IF val = NoneStr THEN EmptyStr ELSE Lower(val)

match_faction_name(faction_name, candidate_name) ==
    LET f == safe_lower(faction_name)
        c == safe_lower(candidate_name)
    IN  Contains(c, f) \/ Contains(f, c)

_get_faction_name(catalogue_name) ==
    LET parts == Split(catalogue_name, " - ")
        catalogue_array == [i \in DOMAIN parts |-> ReplaceSub(parts[i], << "'" >>, << >>)]
        last == catalogue_array[Len(catalogue_array)]
        faction_name == IF last = << "Craftworlds" >> THEN catalogue_array[1] ELSE last
    IN  IF faction_name \in subfaction_rename_keys
        THEN subfaction_rename_dict(faction_name)
        ELSE faction_name

extract_subfaction_names(roster_elem, types) ==
    FlatMap(Len(roster_elem.selections),
        LAMBDA k :
            LET selection == roster_elem.selections[k]
            IN  IF InList(selection.name, types)
                THEN [j \in DOMAIN selection.selections |->
                        ReplaceSub(selection.selections[j], << "'" >>, << >>)]
                ELSE << >>)

\* the cleaned, lowercased catalogue name the legacy parser compares
cat_name_clean_lower(roster_elem) == safe_lower(_get_faction_name(roster_elem.catalogueName))

\* the faction of one force, NoFaction when none matches
FactionOfForce(roster_elem) ==
    LET direct == FirstIndex(_factions_dict,
                      LAMBDA faction :
                          \/ Contains(cat_name_clean_lower(roster_elem),
                                      safe_lower(faction.name))
                          \/ Contains(safe_lower(faction.name),
                                      cat_name_clean_lower(roster_elem)))
        subfaction_names == extract_subfaction_names(roster_elem, subfaction_types)
        lookups == [j \in DOMAIN subfaction_names |->
                       IF subfaction_names[j] \in subfaction_rename_keys
                       THEN subfaction_rename_dict(subfaction_names[j])
                       ELSE subfaction_names[j]]
        hit(j) == FirstIndex(_factions_dict,
                      LAMBDA faction : match_faction_name(faction.name, lookups[j]))
        via == FirstIndex([j \in DOMAIN lookups |-> hit(j)], LAMBDA h : h # 0)
    IN  IF direct # 0 THEN _factions_dict[direct]
        ELSE IF via # 0 THEN _factions_dict[hit(via)]
        ELSE NoFaction

_find_faction(roster_list) == [f \in DOMAIN roster_list |-> FactionOfForce(roster_list[f])]

\* normalised detachment name -> canonical name; a later row overwrites
DetachmentMapKeys ==
    { ReplaceSub(Lower(Strip(_detachment_abilities_dict[i].detachment)), << " " >>, << >>) :
        i \in { j \in DOMAIN _detachment_abilities_dict :
                    Truthy(_detachment_abilities_dict[j].detachment) } }

DetachmentMap(norm) ==
    LET rows == { j \in DOMAIN _detachment_abilities_dict :
                     /\ Truthy(_detachment_abilities_dict[j].detachment)
                     /\ ReplaceSub(Lower(Strip(_detachment_abilities_dict[j].detachment)),
                                   << " " >>, << >>) = norm }
        last == CHOOSE j \in rows : \A k \in rows : k <= j
    IN  Strip(_detachment_abilities_dict[last].detachment)

\* The fallback over category labels reads unit.get("categories", []) where
\* xmltodict stores a dict: iterating it yields its keys, no entry is a dict
\* with a "name", so the fallback never produces a match.
DetachmentOfForce(force) ==
    LET candidates ==
            FlatMap(Len(force.selections),
                LAMBDA k :
                    IF Lower(force.selections[k].name) = << "detachment" >>
                    THEN force.selections[k].selections
                    ELSE << >>)
        hit == FirstIndex(candidates,
                   LAMBDA det_name_raw :
                       ReplaceSub(Lower(Strip(det_name_raw)), << " " >>, << >>)
                           \in DetachmentMapKeys)
    IN  IF hit # 0
        THEN DetachmentMap(ReplaceSub(Lower(Strip(candidates[hit])), << " " >>, << >>))
        ELSE NoneStr

_find_detachment(roster_list) ==
    [f \in DOMAIN roster_list |-> DetachmentOfForce(roster_list[f])]

AtomLen(a) ==
    CASE a = "Army of Renown" -> 14
      [] a = " - " -> 3
      [] a = " " -> 1
      [] a = "Vanguard" -> 8
      [] a = "Spearhead" -> 9
      [] OTHER -> 1

\* s[n:], for a cut that falls between two atoms
RECURSIVE DropChars(_, _)
DropChars(s, n) ==
    IF n <= 0 \/ s = << >> THEN s ELSE DropChars(Tail(s), n - AtomLen(Head(s)))

\* army_of_renown_name is set before the loop over the forces and is only
\* overwritten by a force that has such a selection
_find_army_of_renown(roster_list) ==
    LET name[f \in 0..Len(roster_list)] ==
            IF f = 0 THEN NoneStr
            ELSE LET sels == roster_list[f].selections
                     k == FirstIndex(sels,
                              LAMBDA sel : Contains(sel.name, << "Army of Renown" >>))
                 IN  IF k = 0 THEN name[f - 1]
                     ELSE IF sels[k].name = << "Army of Renown" >>
                     THEN ReplaceSub(sels[k].selections[1], << "'" >>, << >>)
                     ELSE DropChars(ReplaceSub(sels[k].name, << "'" >>, << >>), 17)
    IN  [f \in DOMAIN roster_list |-> name[f]]

_compare_unit_names(wahapedia_name, battlescribe_name) ==
    LET clean_battlescribe_name == ReplaceSub(battlescribe_name, << "'" >>, << >>)
    IN  \/ /\ clean_battlescribe_name \in unit_rename_keys
           /\ unit_rename_dict(clean_battlescribe_name) = wahapedia_name
        \/ wahapedia_name = clean_battlescribe_name

\* the datasheets matched to one force, in roster order, without repeats
UnitsOfForce(faction_id, roster_force) ==
    LET units == SelectSeq(roster_force.selections,
                     LAMBDA unit : ~InList(unit.name, selection_non_unit_types))
        matched ==
            FlatMap(Len(units),
                LAMBDA k :
                    SelectSeq(_datasheets_dict,
                        LAMBDA datasheet :
                            /\ \/ faction_id.id = datasheet.faction_id
                               \/ faction_id.parent_id = datasheet.faction_id
                            /\ _compare_unit_names(datasheet.name, units[k].name)))
    IN  IF faction_id = NoFaction THEN << >> ELSE Dedup(matched)

_find_units(faction_ids, roster_list) ==
    [f \in DOMAIN faction_ids |-> UnitsOfForce(faction_ids[f], roster_list[f])]

_find_stratagems(units_ids) ==
    [f \in DOMAIN units_ids |->
        FlatMap(Len(units_ids[f]),
            LAMBDA u :
                SelectSeq(_datasheets_stratagems_dict,
                    LAMBDA row : row.datasheet_id = units_ids[f][u].id))]

_filter_empty_stratagems(faction_ids, empty_list) ==
    [f \in DOMAIN faction_ids |->
        IF faction_ids[f] = NoFaction THEN << >>
        ELSE LET kept == SelectSeq(empty_list,
                            LAMBDA st :
                                \/ << faction_ids[f].id >> = st.subfaction_id
                                \/ faction_ids[f].id = st.faction_id
                                \/ faction_ids[f].parent_id = st.faction_id)
             IN  [i \in DOMAIN kept |-> Link("", kept[i].id)]]

filter_core_stratagems(empty_stratagems_list, show_core_option) ==
    IF show_core_option # OPTION_VALUE_ON THEN << >>
    ELSE LET kept == SelectSeq(empty_stratagems_list,
                        LAMBDA st : Contains(Lower(st.type), STRATAGEM_TYPE_CORE_LOWER))
         IN  [i \in DOMAIN kept |-> Link("", kept[i].id)]

filter_out_core_stratagems(stratagems, options) ==
    SelectSeq(stratagems,
        LAMBDA s :
            LET strat == _get_stratagem_from_id(s.stratagem_id, << >>, << >>,
                                                FALSE, FALSE, options)
            IN  ~(/\ s.stratagem_id # 0
                  /\ strat # NoStratagem
                  /\ strat.type # EmptyStr
                  /\ Contains(Lower(strat.type), STRATAGEM_TYPE_CORE_LOWER)))

-----------------------------------------------------------------------------
(* sublib/battle_parse.py : phase and unit organisation *)

_get_subfaction_from_units(units_id) ==
    LET keywords == FlatMap(Len(units_id), LAMBDA u : units_id[u].keywords)
        clean(keyword) == Strip(ReplaceSub(Lower(keyword), << "faction:", " " >>, << >>))
        known(keyword) == { key \in subfaction_rename_keys : Lower(key) = clean(keyword) }
        hit == FirstIndex(keywords, LAMBDA keyword : known(keyword) # { })
    IN  IF hit = 0 THEN NoneStr
        ELSE subfaction_rename_dict(CHOOSE key \in known(keywords[hit]) : TRUE)

_normalize_phases(phases) ==
    LET parts == Split(phases, " or ")
        stripped == [i \in DOMAIN parts |-> Strip(parts[i])]
    IN  SelectSeq(stripped, LAMBDA part : InList(part, phases_list))

\* the lowercased detachment names detected for the forces of the roster
UserDetachments(roster_list) ==
    LET detected == _find_detachment(roster_list)
    IN  { Strip(Lower(detected[f])) : f \in { g \in DOMAIN detected : Truthy(detected[g]) } }

\* detachment_name_to_id restricted to the user's detachments
UserDetachmentIds(roster_list) ==
    LET rows == { j \in DOMAIN _detachment_abilities_dict :
                     /\ Truthy(_detachment_abilities_dict[j].detachment)
                     /\ Truthy(_detachment_abilities_dict[j].detachment_id) }
        key(j) == Strip(Lower(_detachment_abilities_dict[j].detachment))
        last(d) == CHOOSE j \in rows : key(j) = d /\ \A k \in rows : key(k) = d => k <= j
    IN  { _detachment_abilities_dict[last(d)].detachment_id :
            d \in { e \in UserDetachments(roster_list) : \E j \in rows : key(j) = e } }

\* "Only include if detachment matches or is empty (generic stratagem)"
DetachmentMatches(full_stratagem, user_detachments, user_detachment_ids) ==
    LET strat_detachment ==
            Strip(Lower(IF Truthy(full_stratagem.detachment)
                        THEN full_stratagem.detachment ELSE EmptyStr))
        strat_detachment_id ==
            Strip(IF Truthy(full_stratagem.detachment_id)
                  THEN full_stratagem.detachment_id ELSE EmptyStr)
    IN  (strat_detachment # EmptyStr \/ strat_detachment_id # EmptyStr) =>
            \/ strat_detachment # EmptyStr /\ strat_detachment \in user_detachments
            \/ strat_detachment_id # EmptyStr /\ strat_detachment_id \in user_detachment_ids

\* The stratagems one force contributes to the phase mapping, in loop
\* order: [stratagem, phases] for every entry and phase row that pass the
\* link, validity, detachment and subfaction tests.
PhaseHits(stratagems_id, units_id, options, roster_list, army_of_renown, ignored) ==
    LET Rows(full_stratagem, rows, current_subfaction_id, user_detachments, user_detachment_ids) ==
            IF /\ full_stratagem # NoStratagem
               /\ DetachmentMatches(full_stratagem, user_detachments, user_detachment_ids)
               /\ ~(/\ Truthy(full_stratagem.subfaction_id)
                    /\ full_stratagem.subfaction_id # current_subfaction_id)
            THEN [r \in DOMAIN rows |->
                     [stratagem |-> full_stratagem,
                      phases |-> _normalize_phases(rows[r].phase)]]
            ELSE << >>
        Entry(strat_id, current_subfaction_id, user_detachments, user_detachment_ids) ==
            Rows(_get_stratagem_from_id(strat_id, stratagems_id, units_id,
                                        TRUE, FALSE, options),
                 SelectSeq(_stratagem_phases_dict,
                     LAMBDA stratagem_phase : stratagem_phase.id = strat_id),
                 current_subfaction_id, user_detachments, user_detachment_ids)
        Loop(linked, current_subfaction_id, user_detachments, user_detachment_ids) ==
            FlatMap(Len(linked),
                LAMBDA e : Entry(linked[e].stratagem_id, current_subfaction_id,
                                 user_detachments, user_detachment_ids))
    IN  Loop(SelectSeq(stratagems_id,
                 LAMBDA strat_entry :
                     /\ InList(Link(strat_entry.datasheet_id, strat_entry.stratagem_id),
                               _datasheets_stratagems_dict)
                     /\ _stratagem_is_valid(strat_entry.stratagem_id, options,
                                            army_of_renown, ignored)),
             _get_subfaction_from_units(units_id),
             UserDetachments(roster_list),
             UserDetachmentIds(roster_list))

\* returns the phase mapping and the ids added to _full_stratagems_list
_prepare_stratagems_phase(stratagems_id, units_id, options, roster_list, army_of_renown, ignored) ==
    LET Mapping(pairs, keys) ==
            [i \in DOMAIN keys |->
                [key |-> keys[i], val |-> Dedup(ValuesOf(pairs, keys[i]))]]
        Grouped(pairs) == Mapping(pairs, Dedup([i \in DOMAIN pairs |-> pairs[i].key]))
        Pairs(hits) ==
            FlatMap(Len(hits),
                LAMBDA h : [p \in DOMAIN hits[h].phases |->
                               [key |-> hits[h].phases[p],
                                val |-> hits[h].stratagem.name]])
        Build(hits) ==
            [result |-> Grouped(Pairs(hits)),
             added |-> [h \in DOMAIN hits |-> hits[h].stratagem.id]]
    IN  Build(PhaseHits(stratagems_id, units_id, options, roster_list,
                        army_of_renown, ignored))

\* the key of a unit in the unit mapping
UnitKey(units_id, unit_id, options) ==
    IF options.show_units = OPTION_VALUE_ON
    THEN << "[", ToString(IndexOf(unit_id, units_id)), "]", " " >> \o unit_id.name
    ELSE unit_id.name

\* returns the unit mapping and the ids added to _full_stratagems_list
_prepare_stratagems_units(stratagems_id, units_id, options, roster_list, army_of_renown, ignored) ==
    LET Rows(stratagem_id, full_stratagem, current_subfaction_id, user_detachments, user_detachment_ids) ==
            IF /\ full_stratagem # NoStratagem
               /\ DetachmentMatches(full_stratagem, user_detachments, user_detachment_ids)
               /\ \/ full_stratagem.subfaction_id = EmptyStr
                  \/ full_stratagem.subfaction_id = current_subfaction_id
            THEN LET units == SelectSeq(units_id,
                                  LAMBDA unit_id : stratagem_id.datasheet_id = unit_id.id)
                 IN  [u \in DOMAIN units |->
                         [key |-> UnitKey(units_id, units[u], options),
                          val |-> full_stratagem.name,
                          id |-> full_stratagem.id]]
            ELSE << >>
        Entry(stratagem_id, current_subfaction_id, user_detachments, user_detachment_ids) ==
            Rows(stratagem_id,
                 _get_stratagem_from_id(stratagem_id.stratagem_id, << >>, << >>,
                                        FALSE, FALSE, options),
                 current_subfaction_id, user_detachments, user_detachment_ids)
        Loop(valid, current_subfaction_id, user_detachments, user_detachment_ids) ==
            FlatMap(Len(valid),
                LAMBDA s : Entry(valid[s], current_subfaction_id,
                                 user_detachments, user_detachment_ids))
        Build(keys, hits) ==
            [result |-> [i \in DOMAIN keys |->
                            [key |-> keys[i], val |-> ValuesOf(hits, keys[i])]],
             added |-> [h \in DOMAIN hits |-> hits[h].id]]
    IN  Build(Dedup([u \in DOMAIN units_id |-> UnitKey(units_id, units_id[u], options)]),
              Loop(SelectSeq(stratagems_id,
                       LAMBDA stratagem_id :
                           _stratagem_is_valid(stratagem_id.stratagem_id, options,
                                               army_of_renown, ignored)),
                   _get_subfaction_from_units(units_id),
                   UserDetachments(roster_list),
                   UserDetachmentIds(roster_list)))

_collect_all_stratagems(wh_faction, wh_units, options, roster_list, empty_list) ==
    [empty |-> IF options.show_empty = OPTION_VALUE_ON
               THEN _filter_empty_stratagems(wh_faction, empty_list) ELSE << >>,
     core |-> filter_core_stratagems(empty_list, options.show_core),
     army_of_renown |-> IF options.dont_show_renown # OPTION_VALUE_ON
                        THEN _find_army_of_renown(roster_list) ELSE << >>,
     unit_specific |-> _find_stratagems(wh_units)]

\* what the loop of _process_forces computes for force number id
ProcessForce(id, wh_units, stratagems_data, options, roster_list, army_of_renown, ignored) ==
    LET Build(current_id_phase, currend_id_units, renown) ==
            [phase |-> current_id_phase.result,
             units |-> currend_id_units.result,
             added |-> current_id_phase.added \o currend_id_units.added,
             renown |-> renown]
        Prepare(all_selected_stratagems, renown) ==
            Build(_prepare_stratagems_phase(all_selected_stratagems, wh_units[id], options,
                                            roster_list, renown, ignored),
                  _prepare_stratagems_units(all_selected_stratagems, wh_units[id], options,
                                            roster_list, renown, ignored),
                  renown)
        Select(combined, renown) ==
            Prepare(IF options.show_core # OPTION_VALUE_ON
                    THEN filter_out_core_stratagems(combined, options)
                    ELSE combined,
                    renown)
    IN  Select(stratagems_data.unit_specific[id]
                   \o (IF Len(stratagems_data.empty) # 0
                       THEN stratagems_data.empty[id] ELSE << >>)
                   \o stratagems_data.core,
               IF Len(stratagems_data.army_of_renown) # 0
               THEN stratagems_data.army_of_renown[id]
               ELSE army_of_renown)

\* returns result_phase, result_units and the final values of
\* _full_stratagems_list and wh40k_lists.current_army_of_renown; the
\* variant name is assigned per force only when the variant list is not
\* empty, so each force reads either its own entry or the value on entry
_process_forces(wh_faction, wh_units, stratagems_data, options, roster_list, full_list, army_of_renown, ignored) ==
    LET Build(force) ==
            [result_phase |-> [id \in DOMAIN force |-> force[id].phase],
             result_units |-> [id \in DOMAIN force |-> force[id].units],
             full |-> Dedup(full_list \o FlatMap(Len(force), LAMBDA id : force[id].added)),
             renown |-> IF force = << >> THEN army_of_renown
                        ELSE force[Len(force)].renown]
    IN  Build([id \in DOMAIN wh_faction |->
                  ProcessForce(id, wh_units, stratagems_data, options, roster_list,
                               army_of_renown, ignored)])

_sort_phases_by_game_order(result_phase) ==
    [f \in DOMAIN result_phase |->
        SortByKey(result_phase[f], LAMBDA entry : IndexOf(entry.key, phases_list))]

\* clean_full_stratagem only drops presentation fields that are not modelled
_get_full_stratagems_list(full_list, options) ==
    LET sorted_stratagems_list == SortByKey(full_list, LAMBDA stratagem_id : stratagem_id)
    IN  [i \in DOMAIN sorted_stratagems_list |->
            _get_stratagem_from_id(sorted_stratagems_list[i], << >>, << >>,
                                   FALSE, TRUE, options)]

-----------------------------------------------------------------------------
(* sublib/battle_parse.py : the request entry point *)

\* module state of battle_parse and wh40k_lists as one record
LegacyState(options, empty_list, full_list, ignored, army_of_renown) ==
    [options |-> options, empty |-> empty_list, full |-> full_list,
     ignored |-> ignored, renown |-> army_of_renown]

\* wh40k_lists.clean_list() empties the ignore-phase list
clean_list(ignored) == << >>

\* db_updated is the value returned by wahapedia_db.init_db(): init_parse
\* then recomputes the empty-stratagem list under the state left by the
\* previous request
_initialize_parsing_keep_list(request_options, db_updated, st) ==
    LegacyState(request_options,
        IF db_updated THEN _find_empty_stratagems(st.options, st.renown, st.ignored)
        ELSE st.empty,
        st.full,
        IF request_options.dont_show_before = OPTION_VALUE_ON
        THEN Append(clean_list(st.ignored), PHASE_BEFORE_BATTLE)
        ELSE clean_list(st.ignored),
        st.renown)

_initialize_parsing(request_options, db_updated, st) ==
    LegacyState(request_options,
        IF db_updated THEN _find_empty_stratagems(st.options, st.renown, st.ignored)
        ELSE st.empty,
        << >>,
        IF request_options.dont_show_before = OPTION_VALUE_ON
        THEN Append(clean_list(st.ignored), PHASE_BEFORE_BATTLE)
        ELSE clean_list(st.ignored),
        st.renown)

\* _prepare_roster_list: the forces of the parsed roster file
_prepare_roster_list(roster) == roster

\* a warning line: what it reports and the force it names
Warning(kind, force) == [kind |-> kind, force |-> force]

\* the "Warning: ..." lines print() writes during one parse: _find_faction
\* writes one for each force whose faction it could not determine
LegacyWarnings(wh_faction) ==
    FlatMap(Len(wh_faction),
        LAMBDA f : IF wh_faction[f] = NoFaction
                   THEN << Warning("no_faction", f) >> ELSE << >>)

\* parse_battlescribe, last lines: the returned triple, the module state left
\* behind and the lines printed
LegacyReturn(init, roster_list, printed, done) ==
    [value |-> [result_phase |-> _sort_phases_by_game_order(done.result_phase),
                result_units |-> done.result_units,
                stratagems |-> _get_full_stratagems_list(done.full, init.options)],
     state |-> LegacyState(init.options, init.empty, done.full, init.ignored,
                           done.renown),
     roster_list |-> roster_list,
     printed |-> printed]

\* parse_battlescribe from _collect_all_stratagems on
LegacyProcess(init, roster_list, wh_faction, wh_units) ==
    LegacyReturn(init, roster_list, LegacyWarnings(wh_faction),
                 _process_forces(wh_faction, wh_units,
                     _collect_all_stratagems(wh_faction, wh_units, init.options,
                                             roster_list, init.empty),
                     init.options, roster_list, init.full, init.renown, init.ignored))

\* parse_battlescribe from _find_units on
LegacyUnits(init, roster_list, wh_faction) ==
    LegacyProcess(init, roster_list, wh_faction, _find_units(wh_faction, roster_list))

\* parse_battlescribe from _find_faction on
LegacyFaction(init, roster_list) ==
    LegacyUnits(init, roster_list, _find_faction(roster_list))

\* parse_battlescribe: each step's value is named once and handed on
LegacyRun(req, db_updated, st) ==
    LegacyFaction(_initialize_parsing(req.form, db_updated, st),
                  _prepare_roster_list(req.roster))

NoResult == [result_phase |-> << >>, result_units |-> << >>, stratagems |-> << >>]

\* state after import: main.py runs init_parse() once with empty options
InitialLegacyState ==
    LegacyState(EmptyForm, _find_empty_stratagems(EmptyForm, EmptyStr, << >>),
                << >>, << >>, EmptyStr)

-----------------------------------------------------------------------------
(* app/ : the service layer *)

from_form_data(form_data) ==
    [show_units |-> form_data.show_units = "on",
     show_phases |-> form_data.show_phases = "on",
     show_empty |-> form_data.show_empty = "on",
     show_core |-> form_data.show_core = "on",
     dont_show_renown |-> form_data.dont_show_renown = "on",
     dont_show_before |-> form_data.dont_show_before = "on"]

\* WahapediaStratagem.from_csv_row: an empty optional column becomes None
from_csv_row(row) ==
    [row EXCEPT !.phase = IF @ = EmptyStr THEN NoneStr ELSE @,
                !.subfaction_id = IF @ = EmptyStr THEN NoneStr ELSE @,
                !.detachment = IF @ = EmptyStr THEN NoneStr ELSE @,
                !.detachment_id = IF @ = EmptyStr THEN NoneStr ELSE @]

wahapedia_stratagem_to_domain(wh_stratagem, phase) == [wh_stratagem EXCEPT !.phase = phase]

\* WahapediaService.get_stratagems: a row the Stratagem constructor
\* rejects (empty name) is skipped
get_stratagems ==
    LET rows == SelectSeq(_stratagems_dict, LAMBDA row : row.name # EmptyStr)
    IN  [i \in DOMAIN rows |->
            LET wh_stratagem == from_csv_row(rows[i])
            IN  wahapedia_stratagem_to_domain(wh_stratagem,
                    IF Truthy(wh_stratagem.phase) THEN wh_stratagem.phase ELSE EmptyStr)]

\* a repository cache: None until the first getter call after a clear
NoCache == [loaded |-> FALSE, rows |-> << >>]

CacheNames == { "factions", "stratagems", "datasheets", "datasheet_stratagems" }

_clear_caches ==
    [factions |-> NoCache, stratagems |-> NoCache,
     datasheets |-> NoCache, datasheet_stratagems |-> NoCache]

initialize_clears_always(caches, updated) == _clear_caches

\* StratagemRepository.initialize: the caches are cleared when the
\* dataset service reports an update
initialize(caches, updated) == IF updated THEN _clear_caches ELSE caches

get_all_factions(cache) ==
    IF cache.loaded THEN cache ELSE [loaded |-> TRUE, rows |-> _factions_dict]

get_all_stratagems(cache) ==
    IF cache.loaded THEN cache ELSE [loaded |-> TRUE, rows |-> get_stratagems]

get_all_datasheets(cache) ==
    IF cache.loaded THEN cache ELSE [loaded |-> TRUE, rows |-> _datasheets_dict]

get_datasheet_stratagems(cache) ==
    IF cache.loaded THEN cache ELSE [loaded |-> TRUE, rows |-> _datasheets_stratagems_dict]

standardize_unit_name(unit_name) ==
    IF unit_name \in unit_rename_keys THEN unit_rename_dict(unit_name) ELSE unit_name

UnitTypeIndicators ==
    << <<"character">>, <<"battleline">>, <<"infantry">>, <<"vehicle">>,
       <<"monster">>, <<"unit">> >>

\* the forces of the roster with the units the converter recognises
roster_xml_to_domain(roster) ==
    [f \in DOMAIN roster |->
        LET units == SelectSeq(roster[f].selections,
                         LAMBDA selection :
                             /\ \E c \in DOMAIN selection.categories :
                                    \E t \in DOMAIN UnitTypeIndicators :
                                        Contains(Lower(selection.categories[c]),
                                                 UnitTypeIndicators[t])
                             /\ selection.name # EmptyStr)
        IN  [catalogue_name |-> roster[f].catalogueName,
             units |-> [u \in DOMAIN units |->
                           [name |-> standardize_unit_name(units[u].name)]],
             selections |-> roster[f].selections]]

faction_mappings ==
    << [bs_name |-> W(<<"adeptus", "astartes">>), wh_name |-> W(<<"space", "marines">>)],
       [bs_name |-> W(<<"heretic", "astartes">>),
        wh_name |-> W(<<"chaos", "space", "marines">>)],
       [bs_name |-> W(<<"astra", "militarum">>), wh_name |-> W(<<"imperial", "guard">>)],
       [bs_name |-> <<"tau">>, wh_name |-> W(<<"tau", "empire">>)],
       [bs_name |-> <<"craftworlds">>, wh_name |-> <<"aeldari">>],
       [bs_name |-> <<"drukhari">>, wh_name |-> W(<<"dark", "eldar">>)] >>

\* str.split(): the words of a string
Words(s) == SelectSeq(s, LAMBDA a : a # " ")

\* the cleaned, lowercased catalogue name the service compares
CatalogueClean(catalogue_name) ==
    ReplaceSub(
        ReplaceSub(
            ReplaceSub(Lower(catalogue_name), << "imperium", " - " >>, << >>),
            << "chaos", " - " >>, << >>),
        << " - " >>, << " " >>)

\* No word of the reference data is shorter than three characters or a
\* proper substring of another word, so the word test is word equality.
_match_faction_for_force(force, all_factions) ==
    LET catalogue_clean == CatalogueClean(force.catalogue_name)
        direct == FirstIndex(all_factions,
                      LAMBDA faction :
                          \/ Contains(catalogue_clean, Lower(faction.name))
                          \/ Contains(Lower(faction.name), catalogue_clean)
                          \/ \E m \in DOMAIN faction_mappings :
                                 /\ Contains(catalogue_clean, faction_mappings[m].bs_name)
                                 /\ faction_mappings[m].wh_name = Lower(faction.name))
        fallback == FirstIndex(all_factions,
                        LAMBDA faction :
                            LET faction_words == Words(Lower(faction.name))
                                catalogue_words == Words(catalogue_clean)
                            IN  /\ Len(faction_words) > 0
                                /\ \A w \in DOMAIN faction_words :
                                       InList(faction_words[w], catalogue_words))
    IN  IF direct # 0 THEN all_factions[direct]
        ELSE IF fallback # 0 THEN all_factions[fallback]
        ELSE NoFaction

_extract_faction_data(roster_data, all_factions) ==
    [f \in DOMAIN roster_data |-> _match_faction_for_force(roster_data[f], all_factions)]

\* the first named sub-selection of a "Detachment" selection decides
_match_detachment_for_force(force) ==
    LET named == FlatMap(Len(force.selections),
                     LAMBDA k :
                         IF Lower(force.selections[k].name) = << "detachment" >>
                         THEN SelectSeq(force.selections[k].selections,
                                  LAMBDA detachment_name : detachment_name # EmptyStr)
                         ELSE << >>)
        detachment_normalized == ReplaceSub(Lower(Strip(named[1])), << " " >>, << >>)
    IN  IF named = << >> THEN NoneStr
        ELSE IF detachment_normalized \in DetachmentMapKeys
        THEN DetachmentMap(detachment_normalized)
        ELSE named[1]

_extract_detachment_data(roster_data) ==
    [f \in DOMAIN roster_data |-> _match_detachment_for_force(roster_data[f])]

\* datasheet_map is keyed by the lowercased name: a later datasheet of the
\* same name replaces an earlier one
_extract_unit_data(roster_data) ==
    [f \in DOMAIN roster_data |->
        [u \in DOMAIN roster_data[f].units |->
            LET unit == roster_data[f].units[u]
                same == { d \in DOMAIN _datasheets_dict :
                            Lower(_datasheets_dict[d].name) = Lower(unit.name) }
            IN  [name |-> unit.name,
                 datasheet_id |-> IF same = { } THEN ""
                                  ELSE _datasheets_dict[
                                           CHOOSE d \in same : \A e \in same : e <= d].id]]]

\* the literal list of _filter_relevant_stratagems
invalid_types ==
    << <<"(Supplement)">>, W(<<"Crusher", "Stampede">>), <<"Crusade">>,
       W(<<"Fallen", "Angels">>), W(<<"Boarding", "Actions">>) >>

\* relevant_stratagem_ids is a Python set: its iteration order is fixed for
\* a given process and is taken here as ascending id
_filter_relevant_stratagems(all_stratagems, faction_data, detachment_data, unit_data, options) ==
    LET roster_unit_datasheet_ids ==
            UNION { { unit_data[f][u].datasheet_id : u \in DOMAIN unit_data[f] } :
                      f \in DOMAIN unit_data } \ { "" }
        relevant_stratagem_ids ==
            { _datasheets_stratagems_dict[i].stratagem_id :
                i \in { j \in DOMAIN _datasheets_stratagems_dict :
                          _datasheets_stratagems_dict[j].datasheet_id
                              \in roster_unit_datasheet_ids } }
        roster_detachment_names ==
            { detachment_data[f] :
                f \in { g \in DOMAIN detachment_data : Truthy(detachment_data[g]) } }
        stratagem_map(id) ==
            all_stratagems[CHOOSE i \in DOMAIN all_stratagems :
                              /\ all_stratagems[i].id = id
                              /\ \A j \in DOMAIN all_stratagems :
                                     all_stratagems[j].id = id => j <= i]
        known == SelectSeq(SortByKey([i \in DOMAIN all_stratagems |-> all_stratagems[i].id],
                                     LAMBDA id : id),
                     LAMBDA id : id \in relevant_stratagem_ids)
        ids == Dedup(known)
        unit_specific ==
            SelectSeq([i \in DOMAIN ids |-> stratagem_map(ids[i])],
                LAMBDA stratagem :
                    /\ ~Truthy(stratagem.detachment)
                    /\ ~Contains(stratagem.type, << "Core" >>)
                    /\ ~Contains(stratagem.type, W(<<"Boarding", "Actions">>)))
        with_detachment ==
            Dedup(unit_specific \o
                  SelectSeq(all_stratagems,
                      LAMBDA stratagem :
                          /\ Truthy(stratagem.detachment)
                          /\ stratagem.detachment \in roster_detachment_names))
        added_stratagem_names ==
            { with_detachment[i].name : i \in DOMAIN with_detachment }
        core == SelectSeq(all_stratagems,
                    LAMBDA stratagem :
                        /\ ~\E t \in DOMAIN invalid_types :
                               Contains(stratagem.type, invalid_types[t])
                        /\ Contains(Lower(stratagem.type), << "core" >>)
                        /\ stratagem.name \notin added_stratagem_names
                        /\ stratagem.name # << "NEW ORDERS" >>)
        first_of_name == SelectSeq([i \in DOMAIN core |-> i],
                             LAMBDA i : \A j \in 1..(i - 1) : core[j].name # core[i].name)
    IN  with_detachment \o
        (IF options.show_core THEN [k \in DOMAIN first_of_name |-> core[first_of_name[k]]]
         ELSE << >>)

_collect_applicable_stratagems(faction_data, detachment_data, unit_data, options, all_stratagems) ==
    LET relevant_stratagems ==
            _filter_relevant_stratagems(all_stratagems, faction_data, detachment_data,
                                        unit_data, options)
    IN  [core |-> << >>,
         unit_specific |-> [f \in DOMAIN faction_data |-> relevant_stratagems],
         empty |-> << >>,
         army_of_renown |-> << >>]

_organize_by_phase(stratagems, num_forces) ==
    LET pairs == [i \in DOMAIN stratagems |->
                     [key |-> IF Truthy(stratagems[i].phase) THEN stratagems[i].phase
                              ELSE << "Any Phase" >>,
                      val |-> stratagems[i].name]]
        keys == Dedup([i \in DOMAIN pairs |-> pairs[i].key])
        phase_dict == [k \in DOMAIN keys |->
                          [key |-> keys[k], val |-> ValuesOf(pairs, keys[k])]]
    IN  [f \in 1..num_forces |-> phase_dict]

_organize_by_unit(stratagems, unit_data) ==
    LET stratagem_names == [i \in DOMAIN stratagems |-> stratagems[i].name]
    IN  [force_idx \in DOMAIN unit_data |->
            LET keys == Dedup([u \in DOMAIN unit_data[force_idx] |->
                                  unit_data[force_idx][u].name])
            IN  [k \in DOMAIN keys |-> [key |-> keys[k], val |-> stratagem_names]]]

_organize_results_for_ui(collected_stratagems, unit_data, options) ==
    LET all_stratagems == FlatMap(Len(collected_stratagems.unit_specific),
                              LAMBDA f : collected_stratagems.unit_specific[f])
    IN  [phases |-> _organize_by_phase(all_stratagems, Len(unit_data)),
         units |-> _organize_by_unit(all_stratagems, unit_data),
         all_stratagems |-> all_stratagems]

\* the logger.warning() lines of one run: _extract_faction_data writes one for
\* each force without faction; then, force by force, _match_detachment_for_force
\* writes one for a named detachment that is not in the table and
\* _extract_detachment_data one for a force without detachment
ServiceWarnings(roster_data, faction_data, detachment_data) ==
    FlatMap(Len(faction_data),
        LAMBDA f : IF faction_data[f] = NoFaction
                   THEN << Warning("no_faction", f) >> ELSE << >>)
    \o FlatMap(Len(detachment_data),
        LAMBDA f : IF detachment_data[f] = NoneStr
                   THEN << Warning("no_detachment", f) >>
                   ELSE IF ~InList(detachment_data[f],
                               [k \in DOMAIN _detachment_abilities_dict |->
                                   Strip(_detachment_abilities_dict[k].detachment)])
                   THEN << Warning("detachment_not_in_data", f) >>
                   ELSE << >>)

\* the returned ProcessingResult and the repository caches left behind;
\* updated is the value returned by WahapediaService.initialize()
ServiceRun(req, updated, caches) ==
    LET options == from_form_data(req.form)
        cleared == initialize(caches, updated)
        roster_data == roster_xml_to_domain(req.roster)
        factions == get_all_factions(cleared.factions)
        faction_data == _extract_faction_data(roster_data, factions.rows)
        detachment_data == _extract_detachment_data(roster_data)
        unit_data == _extract_unit_data(roster_data)
        stratagems == get_all_stratagems(cleared.stratagems)
        stratagems_data ==
            _collect_applicable_stratagems(faction_data, detachment_data, unit_data,
                                           options, stratagems.rows)
    IN  [value |-> _organize_results_for_ui(stratagems_data, unit_data, options),
         caches |-> [factions |-> factions, stratagems |-> stratagems],
         logged |-> ServiceWarnings(roster_data, faction_data, detachment_data)]

NoProcessingResult == [phases |-> << >>, units |-> << >>, all_stratagems |-> << >>]

parse_battlescribe(req, db_updated) ==
    /\ pc = "uploaded"
    /\ \E run \in { LegacyRun(req, db_updated,
                          LegacyState(_request_options, _empty_stratagems_list,
                                      _full_stratagems_list, ignore_phases_list,
                                      current_army_of_renown)) } :
           /\ _request_options' = run.state.options
           /\ _empty_stratagems_list' = run.state.empty
           /\ _full_stratagems_list' = run.state.full
           /\ ignore_phases_list' = run.state.ignored
           /\ current_army_of_renown' = run.state.renown
           /\ _roster_list' = run.roster_list
           /\ legacy_result' = run.value
           /\ log' = run.printed
    /\ pc' = "legacy"
    /\ served' = served + 1
    /\ UNCHANGED << request, _factions_cache, _stratagems_cache, service_result >>
    /\ UNCHANGED << upload_vars, datasheet_caches, repository_calls, refresh_vars, threads >>

process_roster_file(req, updated) ==
    /\ pc = "uploaded"
    /\ \E run \in { ServiceRun(req, updated,
                          [factions |-> _factions_cache,
                           stratagems |-> _stratagems_cache]) } :
           /\ _factions_cache' = run.caches.factions
           /\ _stratagems_cache' = run.caches.stratagems
           /\ service_result' = run.value
           /\ log' = run.logged
    /\ pc' = "service"
    /\ served' = served + 1
    /\ UNCHANGED << request, _request_options, _roster_list, _full_stratagems_list,
                    _empty_stratagems_list, ignore_phases_list, current_army_of_renown,
                    legacy_result >>
    /\ _datasheets_cache' =
           initialize([datasheets |-> _datasheets_cache], updated).datasheets
    /\ _datasheet_stratagems_cache' =
           initialize([datasheet_stratagems |-> _datasheet_stratagems_cache],
                      updated).datasheet_stratagems
    /\ UNCHANGED << upload_vars, repository_calls, refresh_vars, threads >>

\* the files of the data directory: the configured list has the data tables
\* first and the last-update marker last
DataTable == "Stratagems.csv"

LastUpdate == "Last_update.csv"

csv_files == << DataTable, LastUpdate >>

Files == { csv_files[i] : i \in DOMAIN csv_files }

\* the requests that can be under way at the same time
Requesters == { 1, 2 }

\* what a file of the data directory holds: nothing (no such file), what
\* open(save_path, "wb") leaves before the content is written, the page the
\* site answers when it limits the rate, or a table of some version
Absent == [kind |-> "absent", version |-> 0]

Truncated == [kind |-> "partial", version |-> 0]

RateLimitPage == [kind |-> "html", version |-> 0]

Table(version) == [kind |-> "table", version |-> version]

\* a request that is not under way
NoRefresh ==
    [pc |-> "idle", i |-> 0, old |-> Absent, copy |-> [f \in Files |-> "old"],
     found |-> "no", downloaded |-> { }]

\* the threads of the server that run parse_battlescribe
Threads == { 1, 2 }

NoData == [empty |-> << >>, core |-> << >>, army_of_renown |-> << >>, unit_specific |-> << >>]

\* a thread that serves no request: it has no locals
IdleThread == [pc |-> "idle"]

\* the locals of parse_battlescribe on entry
NoThread ==
    [pc |-> "idle", request |-> [roster |-> << >>, form |-> EmptyForm],
     entry |-> LegacyState(EmptyForm, << >>, << >>, << >>, EmptyStr),
     wh_faction |-> << >>, wh_units |-> << >>,
     stratagems_data |-> NoData, result_phase |-> << >>, result_units |-> << >>,
     result |-> NoResult]

\* the state of a freshly started process
InitState ==
    /\ pc = "uploaded"
    /\ served = 0
    /\ _request_options = InitialLegacyState.options
    /\ _roster_list = << >>
    /\ _full_stratagems_list = InitialLegacyState.full
    /\ _empty_stratagems_list = InitialLegacyState.empty
    /\ ignore_phases_list = InitialLegacyState.ignored
    /\ current_army_of_renown = InitialLegacyState.renown
    /\ _factions_cache = NoCache
    /\ _stratagems_cache = NoCache
    /\ legacy_result = NoResult
    /\ service_result = NoProcessingResult
    /\ log = << >>
    /\ _datasheets_cache = NoCache
    /\ _datasheet_stratagems_cache = NoCache
    /\ loader_calls = [c \in CacheNames |-> 0]
    /\ last_call = [op |-> "none", value |-> "none", loader |-> FALSE, emptied |-> { }]
    /\ calls = 0
    /\ upstream = 0
    /\ disk = [f \in Files |-> Absent]
    /\ file_list = [f \in Files |-> "old"]
    /\ refresh = [p \in Requesters |-> NoRefresh]
    /\ overlapped = FALSE
    /\ lost = FALSE
    /\ download_order = << >>
    /\ threads = [t \in Threads |-> IdleThread]

\* the roster file has been read and the tables are loaded: no file handling
\* and no download is under way
FileRead ==
    /\ app = "app" /\ caller = "route"
    /\ upload = [ext |-> ".ros", zip |-> FALSE, member |-> "none", content |-> "roster"]
    /\ previous_copy = TRUE /\ table = "previous"
    /\ step = "process"
    /\ attempt = 0 /\ http_requests = 0
    /\ last_response = "none" /\ download_result = "none"
    /\ raised = "none" /\ report = FALSE /\ response = "none"

Init == request \in Requests /\ InitState /\ FileRead

Next ==
    \/ \E db_updated \in BOOLEAN : parse_battlescribe(request, db_updated)
    \/ \E updated \in BOOLEAN : process_roster_file(request, updated)

\* one upload served by one of the two handlers
Spec == Init /\ [][Next]_vars

\* the uploads whose form leaves dont_show_renown off
RenownRequests == { req \in Requests : req.form.dont_show_renown # OPTION_VALUE_ON }

InitRenown == request \in RenownRequests /\ InitState /\ FileRead

NextRenown == \E db_updated \in BOOLEAN : parse_battlescribe(request, db_updated)

\* one such upload served by the legacy parser
SpecRenown == InitRenown /\ [][NextRenown]_vars

-----------------------------------------------------------------------------
(* A process that serves several uploads one after the other *)

RunForms ==
    { EmptyForm,
      [EmptyForm EXCEPT !.dont_show_renown = OPTION_VALUE_ON],
      [EmptyForm EXCEPT !.dont_show_before = OPTION_VALUE_ON,
                        !.show_core = OPTION_VALUE_ON,
                        !.show_empty = OPTION_VALUE_ON],
      [EmptyForm EXCEPT !.show_units = OPTION_VALUE_ON],
      [EmptyForm EXCEPT !.show_core = OPTION_VALUE_ON,
                        !.dont_show_renown = OPTION_VALUE_ON],
      [EmptyForm EXCEPT !.show_phases = OPTION_VALUE_ON,
                        !.dont_show_before = OPTION_VALUE_ON] }

RunRosters ==
    { << ForceAnvilRenown >>, << ForceGladius >>, << ForceGladius, ForceAnvilRenown >> }

RunRequests == [roster : RunRosters, form : RunForms]

\* the next upload arrives once the previous response has been returned
upload_file(req) ==
    /\ pc # "uploaded"
    /\ served < MaxRuns
    /\ request' = req
    /\ pc' = "uploaded"
    /\ legacy_result' = NoResult
    /\ service_result' = NoProcessingResult
    /\ log' = << >>
    /\ UNCHANGED << served, _request_options, _roster_list, _full_stratagems_list,
                    _empty_stratagems_list, ignore_phases_list, current_army_of_renown,
                    _factions_cache, _stratagems_cache >>
    /\ UNCHANGED << upload_vars, datasheet_caches, repository_calls, refresh_vars, threads >>

InitRuns == request \in RunRequests /\ InitState /\ FileRead

NextRuns ==
    \/ \E db_updated \in BOOLEAN : parse_battlescribe(request, db_updated)
    \/ \E updated \in BOOLEAN : process_roster_file(request, updated)
    \/ \E req \in RunRequests : upload_file(req)

SpecRuns == InitRuns /\ [][NextRuns]_vars

-----------------------------------------------------------------------------
(* Reading the returned results *)

Stratagems == { _stratagems_dict[i] : i \in DOMAIN _stratagems_dict }

\* the display name of a stratagem is its name followed by optional tags
IsNameOf(name, stratagem) ==
    /\ Len(name) >= Len(stratagem.name)
    /\ SubSeq(name, 1, Len(stratagem.name)) = stratagem.name

\* some list of the mapping holds a display name of the stratagem
ListedIn(mapping, stratagem) ==
    \E e \in DOMAIN mapping :
        \E n \in DOMAIN mapping[e].val : IsNameOf(mapping[e].val[n], stratagem)

InFlatList(list, stratagem) == \E i \in DOMAIN list : list[i].id = stratagem.id

LegacyForceLists(f, stratagem) ==
    \/ ListedIn(legacy_result.result_phase[f], stratagem)
    \/ ListedIn(legacy_result.result_units[f], stratagem)

ServiceForceLists(f, stratagem) ==
    \/ ListedIn(service_result.phases[f], stratagem)
    \/ ListedIn(service_result.units[f], stratagem)

LegacyLists(stratagem) ==
    \/ \E f \in DOMAIN legacy_result.result_phase : LegacyForceLists(f, stratagem)
    \/ InFlatList(legacy_result.stratagems, stratagem)

ServiceLists(stratagem) ==
    \/ \E f \in DOMAIN service_result.phases : ServiceForceLists(f, stratagem)
    \/ InFlatList(service_result.all_stratagems, stratagem)

\* the stratagem is somewhere in the response to the served request
Appears(stratagem) == LegacyLists(stratagem) \/ ServiceLists(stratagem)

\* the stratagem is in the output of force f of the served request
ForceLists(f, stratagem) ==
    \/ pc = "legacy" /\ LegacyForceLists(f, stratagem)
    \/ pc = "service" /\ ServiceForceLists(f, stratagem)

Served == pc \in { "legacy", "service" }

IsCore(stratagem) == Contains(Lower(stratagem.type), STRATAGEM_TYPE_CORE_LOWER)

IsBlocklisted(stratagem) ==
    \E i \in DOMAIN invalid_stratagems_type :
        Contains(stratagem.type, invalid_stratagems_type[i])

IsVariantTyped(stratagem) ==
    \E i \in DOMAIN army_of_renown_list :
        Contains(stratagem.type, army_of_renown_list[i])

HasLink(stratagem) ==
    \E i \in DOMAIN _datasheets_stratagems_dict :
        _datasheets_stratagems_dict[i].stratagem_id = stratagem.id

\* a valid rule: a recognised, not blocklisted type and a phase the
\* request does not ignore
IsValidRule(stratagem) ==
    /\ ~IsBlocklisted(stratagem)
    /\ stratagem.type # << "Stratagem" >>
    /\ \E i \in DOMAIN valid_stratagems_type :
           Contains(stratagem.type, valid_stratagems_type[i])
    /\ ~(/\ request.form.dont_show_before = OPTION_VALUE_ON
         /\ stratagem.phase = PHASE_BEFORE_BATTLE)

\* the top-level selections of a force that declare a unit
DeclaredUnits(force) == roster_xml_to_domain(<< force >>)[1].units

DistinctIds(list) == \A i, j \in DOMAIN list : i # j => list[i].id # list[j].id

-----------------------------------------------------------------------------
(* Claims *)

\* C1: the flat rule list of the result (the third value of the legacy
\* parse and ProcessingResult.all_stratagems) never holds two entries with
\* the same stratagem id, for every roster and every option combination.
C1_FlatListHasDistinctIds ==
    /\ DistinctIds(legacy_result.stratagems)
    /\ DistinctIds(service_result.all_stratagems)

\* the datasheets that carry the name shown by a key of a unit mapping
DatasheetsOfKey(key) ==
    { d \in DOMAIN _datasheets_dict :
        /\ Len(key) >= Len(_datasheets_dict[d].name)
        /\ SubSeq(key, Len(key) - Len(_datasheets_dict[d].name) + 1, Len(key))
               = _datasheets_dict[d].name }

\* no rule of the flat list is linked to a datasheet of that unit
NoApplicableRule(key, flat) ==
    \A d \in DatasheetsOfKey(key) : \A i \in DOMAIN flat :
        ~InList(Link(_datasheets_dict[d].id, flat[i].id), _datasheets_stratagems_dict)

UnitCoverage(units, flat) ==
    \A f \in DOMAIN request.roster :
        /\ f \in DOMAIN units
        /\ Len(units[f]) = Len(DeclaredUnits(request.roster[f]))
        /\ \A k \in DOMAIN units[f] :
               NoApplicableRule(units[f][k].key, flat) => units[f][k].val = << >>

\* C2: for every force the unit mapping has exactly one key per declared
\* unit (as many keys as declared units, also when two units share a name)
\* and a unit with no applicable rule maps to an empty list.
C2_UnitMappingCoversDeclaredUnits ==
    /\ pc = "legacy" => UnitCoverage(legacy_result.result_units, legacy_result.stratagems)
    /\ pc = "service" => UnitCoverage(service_result.units, service_result.all_stratagems)

C4_NoCoreRuleWhenShowCoreOff ==
    (Served /\ request.form.show_core # OPTION_VALUE_ON) =>
        \A s \in Stratagems : IsCore(s) => ~Appears(s)

\* C5: with show_core on the rule named "NEW ORDERS" is in no part of the
\* result and every other valid core-type rule (here: the core rules that
\* belong to no detachment) is in the result.
C5_CoreRulesButNewOrders ==
    (Served /\ request.form.show_core = OPTION_VALUE_ON) =>
        \A s \in Stratagems :
            (IsCore(s) /\ IsValidRule(s)) =>
                IF s.name = << "NEW ORDERS" >> THEN ~Appears(s)
                ELSE s.detachment = EmptyStr => Appears(s)

\* C6: for a single force whose resolved detachment is "Gladius Task
\* Force", every valid rule of that detachment is in the force's output,
\* linked to a unit or not, and no rule of "Anvil Siege Force" is, core type
\* or not, whatever show_empty and show_core are.
C6_DetachmentScopedRules ==
    (/\ Served
     /\ Len(request.roster) = 1
     /\ _find_detachment(request.roster)[1] = GladiusTaskForce) =>
        \A s \in Stratagems :
            /\ (s.detachment = GladiusTaskForce /\ IsValidRule(s) /\ ~IsCore(s))
                   => ForceLists(1, s)
            /\ s.detachment = AnvilSiegeForce => ~ForceLists(1, s)

\* a valid rule without unit link, subfaction, detachment, core or variant
\* type whose faction is the one the force resolves to
IsUnitIndependentRuleOf(f, s) ==
    /\ _find_faction(request.roster)[f] # NoFaction
    /\ s.faction_id = _find_faction(request.roster)[f].id
    /\ s.subfaction_id = EmptyStr
    /\ s.detachment = EmptyStr
    /\ ~HasLink(s)
    /\ IsValidRule(s)
    /\ ~IsCore(s)
    /\ ~IsVariantTyped(s)

\* C7: a valid rule with no unit link, an empty subfaction_id and the
\* faction_id of the force's resolved faction is in the force's output when
\* show_empty is on and is not in it when show_empty is off.
C7_UnitIndependentRuleFollowsShowEmpty ==
    Served =>
        \A f \in DOMAIN request.roster : \A s \in Stratagems :
            IsUnitIndependentRuleOf(f, s) =>
                (ForceLists(f, s) <=> request.form.show_empty = OPTION_VALUE_ON)

\* the variant the legacy parser detects for force f of the upload
DetectedVariant(f) == _find_army_of_renown(request.roster)[f]

\* rule s is linked to a unit of force f and nothing but the variant
\* handling decides on it
LinkedToUnitOf(f, s) ==
    LET units == _find_units(_find_faction(request.roster), request.roster)[f]
    IN  /\ \E u \in DOMAIN units :
               InList(Link(units[u].id, s.id), _datasheets_stratagems_dict)
        /\ ~IsBlocklisted(s)
        /\ s.detachment = EmptyStr
        /\ s.subfaction_id = EmptyStr

C9_NoVariantRuleWhenExcluded ==
    (Served /\ request.form.dont_show_renown = OPTION_VALUE_ON) =>
        \A s \in Stratagems :
            IsVariantTyped(s) =>
                /\ ~Appears(s)
                /\ pc = "legacy" =>
                       ~_stratagem_is_valid(s.id, _request_options,
                                            current_army_of_renown, ignore_phases_list)

\* C10: no rule whose type contains a string of the invalid-type blocklist
\* is in any part of the output, for every option combination and variant.
C10_NoBlocklistedRule ==
    Served => \A s \in Stratagems : IsBlocklisted(s) => ~Appears(s)

\* the datasheet ids of the units of force f that the unit mapping of the
\* served handler shows under key
UnitDatasheetIds(f, key) ==
    IF pc = "legacy"
    THEN LET units == _find_units(_find_faction(request.roster), request.roster)[f]
         IN  { units[u].id : u \in { v \in DOMAIN units :
                                       UnitKey(units, units[v], request.form) = key } }
    ELSE LET units == _extract_unit_data(roster_xml_to_domain(request.roster))[f]
         IN  { units[u].datasheet_id : u \in { v \in DOMAIN units : units[v].name = key } }

\* every name listed under a key is the name of a rule linked to a unit of
\* that key
OnlyLinkedRules(units) ==
    \A f \in DOMAIN units : \A k \in DOMAIN units[f] : \A n \in DOMAIN units[f][k].val :
        \E s \in Stratagems :
            /\ IsNameOf(units[f][k].val[n], s)
            /\ \E d \in UnitDatasheetIds(f, units[f][k].key) :
                   InList(Link(d, s.id), _datasheets_stratagems_dict)

\* C11: a rule name is listed under a unit of a force only if a
\* Datasheets_stratagems row joins the datasheet id of that unit to the id of
\* the rule.
C11_UnitListsOnlyLinkedRules ==
    /\ pc = "legacy" => OnlyLinkedRules(legacy_result.result_units)
    /\ pc = "service" => OnlyLinkedRules(service_result.units)

\* the detachment the served handler resolves for force f of the upload
ResolvedDetachment(f) ==
    IF pc = "legacy" THEN _find_detachment(request.roster)[f]
    ELSE _extract_detachment_data(roster_xml_to_domain(request.roster))[f]

\* the rule names a detachment, by name or by id
DeclaresDetachment(s) == Truthy(s.detachment) \/ Truthy(s.detachment_id)

\* the detachment the rule names is the one resolved for force f
MatchesDetachmentOf(f, s) ==
    /\ Truthy(ResolvedDetachment(f))
    /\ \/ Strip(Lower(s.detachment)) = Strip(Lower(ResolvedDetachment(f)))
       \/ \E i \in DOMAIN _detachment_abilities_dict :
              /\ _detachment_abilities_dict[i].detachment = ResolvedDetachment(f)
              /\ Truthy(s.detachment_id)
              /\ _detachment_abilities_dict[i].detachment_id = s.detachment_id

\* C12: in a roster with several forces a rule that declares a detachment
\* name or id is in the phase or unit output of force f only if it matches
\* the detachment resolved for f itself.
C12_DetachmentRuleOnlyForOwnForce ==
    (Served /\ Len(request.roster) >= 2) =>
        \A f \in DOMAIN request.roster : \A s \in Stratagems :
            (DeclaresDetachment(s) /\ ForceLists(f, s)) => MatchesDetachmentOf(f, s)

\* C13: with dont_show_before on no rule whose phase is "Before battle" is
\* in a phase mapping, a unit mapping or the flat list; after a request
\* served with dont_show_before off the ignore list does not hold the
\* phase, whatever the requests before it asked for.
C13_BeforeBattleFollowsOption ==
    /\ (Served /\ request.form.dont_show_before = OPTION_VALUE_ON) =>
           \A s \in Stratagems : s.phase = PHASE_BEFORE_BATTLE => ~Appears(s)
    /\ (pc = "legacy" /\ request.form.dont_show_before # OPTION_VALUE_ON) =>
           ~InList(PHASE_BEFORE_BATTLE, ignore_phases_list)


\* the " or "-delimited segments of a phase string that, trimmed, are not in
\* the canonical phase vocabulary
UnrecognisedSegments(phase) ==
    LET parts == Split(phase, " or ")
    IN  { Strip(parts[i]) : i \in { j \in DOMAIN parts : ~InList(Strip(parts[j]), phases_list) } }

\* C14: when a rule that processing handled has a phase segment outside the
\* canonical vocabulary, the request is rejected or the log holds an entry
\* about that phase segment; the rule is never served without such a trace.
C14_UnrecognisedSegmentLeavesTrace ==
    Served =>
        \A s \in Stratagems :
            (Appears(s) /\ UnrecognisedSegments(s.phase) # { }) =>
                \E i \in DOMAIN log : log[i].kind = "unrecognised_phase_segment"


\* the keys of one phase mapping are phases of the canonical list, in strictly
\* increasing order of their index in it
KeysInGameOrder(mapping) ==
    /\ \A e \in DOMAIN mapping : InList(mapping[e].key, phases_list)
    /\ \A d, e \in DOMAIN mapping :
           d < e => IndexOf(mapping[d].key, phases_list) < IndexOf(mapping[e].key, phases_list)

\* C15: in every per-force phase mapping of the result the phase keys are in
\* strictly increasing order of their index in the canonical phase list, so
\* every key is a member of that list.
C15_PhaseKeysInGameOrder ==
    /\ \A f \in DOMAIN legacy_result.result_phase :
           KeysInGameOrder(legacy_result.result_phase[f])
    /\ \A f \in DOMAIN service_result.phases : KeysInGameOrder(service_result.phases[f])


\* the faction the serving handler resolved for force f
ResolvedFaction(f) ==
    IF pc = "legacy" THEN _find_faction(request.roster)[f]
    ELSE _extract_faction_data(roster_xml_to_domain(request.roster),
                               get_all_factions(NoCache).rows)[f]

\* the force has its entry in both sequences, with no phase and no rule
EmptyEntry(phases, units, f) ==
    /\ f \in DOMAIN phases /\ f \in DOMAIN units
    /\ phases[f] = << >>
    /\ \A k \in DOMAIN units[f] : units[f][k].val = << >>

\* C16: a force whose faction cannot be resolved does not make processing
\* fail: the result has one phase entry and one unit entry per force, and for
\* that force the phase mapping is empty and no rule is attached to a unit.
C16_UnresolvedFactionGivesEmptyEntry ==
    Served =>
        \A f \in DOMAIN request.roster :
            ResolvedFaction(f) = NoFaction =>
                /\ pc = "legacy" =>
                       /\ Len(legacy_result.result_phase) = Len(request.roster)
                       /\ Len(legacy_result.result_units) = Len(request.roster)
                       /\ EmptyEntry(legacy_result.result_phase, legacy_result.result_units, f)
                /\ pc = "service" =>
                       /\ Len(service_result.phases) = Len(request.roster)
                       /\ Len(service_result.units) = Len(request.roster)
                       /\ EmptyEntry(service_result.phases, service_result.units, f)


\* the canonical detachment names of the reference table
DetachmentNames ==
    { Strip(_detachment_abilities_dict[i].detachment) : i \in DOMAIN _detachment_abilities_dict }

\* C17: the detachment resolved for a force is null or the canonical name of a
\* record of the detachment table; a name that is absent from the table is
\* never returned.
C17_ResolvedDetachmentIsCanonical ==
    Served =>
        \A f \in DOMAIN request.roster :
            ResolvedDetachment(f) = NoneStr \/ ResolvedDetachment(f) \in DetachmentNames


-----------------------------------------------------------------------------
(* File upload and table download, one table, one upload *)

\* config.SUPPORTED_EXTENSIONS / FILE_EXT_ROS, FILE_EXT_ROSZ
SUPPORTED_EXTENSIONS == { ".ros", ".rosz" }

\* WAHAPEDIA_MAX_RETRIES; max_retries of wahapedia_db._download_file
max_retries == 5

\* what a file can hold: a roster document, nothing, white space only, text
\* that is no XML, XML without a roster element
Contents == { "roster", "empty", "blank", "not_xml", "no_roster_element" }

\* plain files and archives (no member, or one member named *.ros or *.txt)
Uploads ==
    [ext : { ".ros", ".rosz", ".txt" }, zip : { FALSE }, member : { "none" }, content : Contents]
    \cup [ext : { ".ros", ".rosz", ".txt" }, zip : { TRUE }, member : { ".ros", ".txt" },
          content : Contents]
    \cup [ext : { ".ros", ".rosz", ".txt" }, zip : { TRUE }, member : { "none" },
          content : { "empty" }]

\* FileService._read_ros_file: the exception it raises, "none" when it returns
_read_ros_file(content) ==
    IF content = "roster" THEN "none" ELSE "InvalidRosterFileError"

\* FileService._read_rosz_archive
_read_rosz_archive(file) ==
    IF ~file.zip THEN "InvalidRosterFileError"
    ELSE IF file.member # ".ros" THEN "InvalidRosterFileError"
    ELSE _read_ros_file(file.content)

\* FileService.read_roster_file; the bytes of an archive are no XML document
read_roster_file(file) ==
    IF file.ext = ".rosz" THEN _read_rosz_archive(file)
    ELSE IF file.ext = ".ros"
    THEN _read_ros_file(IF file.zip THEN "not_xml" ELSE file.content)
    ELSE "InvalidRosterFileError"

\* RosterProcessingService._parse_roster_file
_parse_roster_file(file) ==
    IF read_roster_file(file) = "none" THEN "none" ELSE "RosterAnalysisError"

\* process_roster_file: `except Exception as e: raise RosterProcessingError(...)`
RosterProcessingFailure(cause) == IF cause = "none" THEN "none" ELSE "RosterProcessingError"

\* WahapediaService._read_csv_file, reached from the extraction steps
_read_csv_file(file_on_disk) ==
    IF file_on_disk = "absent" THEN "WahapediaDataError" ELSE "none"

\* battle_parse._read_ros_file with file_utils.get_dict_from_xml: the first
\* member of an archive is taken whatever its name
LegacyReadRosFile(file) ==
    IF file.ext = ".rosz"
    THEN IF ~file.zip \/ file.member = "none" THEN "ValueError"
         ELSE IF file.content = "roster" THEN "none" ELSE "ValueError"
    ELSE IF ~file.zip /\ file.content = "roster" THEN "none" ELSE "ValueError"

\* the except clauses of upload_file
RouteResponse(exception) ==
    IF exception = "none" THEN "report"
    ELSE IF exception \in { "ValueError", "FileNotFoundError" } THEN "error_roster_file"
    ELSE IF exception = "ConnectionError" THEN "error_network"
    ELSE "error_unexpected"

\* what the caller of the handler gets
Respond(who, exception) == IF who = "route" THEN RouteResponse(exception) ELSE "none"

\* upload_file up to the call of the handler: only the suffix is examined
route_upload_file ==
    /\ step = "route"
    /\ IF upload.ext \in SUPPORTED_EXTENSIONS
       THEN step' = "initialize" /\ response' = response
       ELSE step' = "done" /\ response' = "upload_form"
    /\ UNCHANGED << app, caller, upload, previous_copy, table, attempt, http_requests,
                    last_response, download_result, raised, report >>
    /\ UNCHANGED << roster_vars, datasheet_caches, repository_calls, refresh_vars, threads >>

\* WahapediaService.initialize / wahapedia_db.init_db: _has_updates and the test
\* of _update_csv_file; has_updates and is_current are read from the remote
\* time stamp and from the file list
initialize_tables(has_updates, is_current) ==
    /\ step = "initialize"
    /\ step' = IF has_updates /\ ~(table # "absent" /\ is_current)
               THEN "download" ELSE "process"
    /\ UNCHANGED << app, caller, upload, previous_copy, table, attempt, http_requests,
                    last_response, download_result, raised, report, response >>
    /\ UNCHANGED << roster_vars, datasheet_caches, repository_calls, refresh_vars, threads >>

attempts_never_used_up(failures) == FALSE

\* `for attempt in range(self.max_retries)` / `retry_count < max_retries`
attempts_used_up(failures) == failures >= max_retries

\* the file under save_path after one iteration: a rate-limit page is written
\* over it, app/ then unlinks it
SavedFile(application, file_on_disk, got) ==
    IF got = "content" THEN "downloaded"
    ELSE IF got = "rate_limited"
    THEN IF application = "app" THEN "absent" ELSE "html"
    ELSE file_on_disk

\* the exception a failed _download_file leaves the handler with
DownloadFailure(application) ==
    IF application = "app" THEN "WahapediaDownloadError" ELSE "ConnectionError"

\* what leaves the handler when the download failed
HandlerFailure(application, exception) ==
    IF application = "app" THEN RosterProcessingFailure(exception) ELSE exception

\* one iteration of the loop of _download_file; when the loop ends with an
\* exception the handler and the route end with it
_download_file(got) ==
    /\ step = "download"
    /\ ~attempts_used_up(attempt)
    /\ http_requests' = http_requests + 1
    /\ last_response' = got
    /\ table' = SavedFile(app, table, got)
    /\ IF got = "content"
       THEN /\ download_result' = "returned"
            /\ step' = "process"
            /\ UNCHANGED << attempt, raised, response >>
       ELSE /\ attempt' = attempt + 1
            /\ IF attempts_used_up(attempt + 1)
               THEN /\ download_result' = DownloadFailure(app)
                    /\ raised' = HandlerFailure(app, DownloadFailure(app))
                    /\ response' = Respond(caller, HandlerFailure(app, DownloadFailure(app)))
                    /\ step' = "done"
               ELSE UNCHANGED << download_result, raised, response, step >>
    /\ UNCHANGED << app, caller, upload, previous_copy, report >>
    /\ UNCHANGED << roster_vars, datasheet_caches, repository_calls, refresh_vars, threads >>

\* the exception of the steps after initialize, "none" when the result is
\* returned: the file is read, then the tables, then the rules are collected;
\* fault stands for a failure inside those steps
ServiceProcessing(file, file_on_disk, fault) ==
    IF _parse_roster_file(file) # "none" THEN RosterProcessingFailure(_parse_roster_file(file))
    ELSE IF _read_csv_file(file_on_disk) # "none"
    THEN RosterProcessingFailure(_read_csv_file(file_on_disk))
    ELSE IF fault THEN RosterProcessingFailure("RosterAnalysisError")
    ELSE "none"

\* main.py loaded the tables when it was imported
LegacyProcessing(file, fault) ==
    IF LegacyReadRosFile(file) # "none" THEN LegacyReadRosFile(file)
    ELSE IF fault THEN "KeyError"
    ELSE "none"

\* the rest of the handler and of the route
process_upload(fault) ==
    /\ step = "process"
    /\ \E exception \in { IF app = "app" THEN ServiceProcessing(upload, table, fault)
                          ELSE LegacyProcessing(upload, fault) } :
           /\ raised' = exception
           /\ report' = (exception = "none")
           /\ response' = Respond(caller, exception)
    /\ step' = "done"
    /\ UNCHANGED << app, caller, upload, previous_copy, table, attempt, http_requests,
                    last_response, download_result >>
    /\ UNCHANGED << roster_vars, datasheet_caches, repository_calls, refresh_vars, threads >>

\* main.py downloads the tables when it is imported: it serves no upload
\* before a copy is on disk
InitUpload ==
    /\ request = [roster |-> << ForceGladius >>, form |-> EmptyForm]
    /\ InitState
    /\ app \in { "app", "main" }
    /\ caller \in { "route", "direct" }
    /\ upload \in Uploads
    /\ previous_copy \in (IF app = "main" THEN { TRUE } ELSE BOOLEAN)
    /\ table = (IF previous_copy THEN "previous" ELSE "absent")
    /\ step = (IF caller = "route" THEN "route" ELSE "initialize")
    /\ attempt = 0 /\ http_requests = 0
    /\ last_response = "none" /\ download_result = "none"
    /\ raised = "none" /\ report = FALSE /\ response = "none"

NextUpload ==
    \/ route_upload_file
    \/ \E has_updates, is_current \in BOOLEAN : initialize_tables(has_updates, is_current)
    \/ \E got \in { "content", "rate_limited", "network_error" } : _download_file(got)
    \/ \E fault \in BOOLEAN : process_upload(fault)

\* one upload, from the route to the response
SpecUpload == InitUpload /\ [][NextUpload]_vars

\* requests.get has a timeout and the pauses are finite: a step that can be
\* taken is taken
SpecUploadFair == SpecUpload /\ WF_vars(NextUpload)


\* the file is malformed, empty, of an unsupported type, or an archive
\* without a roster file in it
InvalidUpload(file) ==
    \/ file.ext \notin SUPPORTED_EXTENSIONS
    \/ file.ext = ".rosz" /\ (~file.zip \/ file.member # ".ros" \/ file.content # "roster")
    \/ file.ext = ".ros" /\ (file.zip \/ file.content # "roster")

\* what the caller gets when the tables are unavailable, and when a step of
\* the processing fails
OtherFailures ==
    { RosterProcessingFailure(_read_csv_file("absent")),
      RosterProcessingFailure("RosterAnalysisError") }

\* C18: an invalid roster file reaches the caller of process_roster_file, and
\* the upload route, as a failure of a kind of its own, which is neither the
\* kind of unavailable data nor the kind of an internal failure; no result
\* is returned.
C18_InvalidInputIsDistinctKind ==
    (step = "done" /\ app = "app" /\ InvalidUpload(upload) /\ download_result \in { "none", "returned" }) =>
        /\ ~report
        /\ response # "report"
        /\ caller = "direct" => raised \notin ({ "none" } \cup OtherFailures)
        /\ caller = "route" =>
               response \notin ({ "none", "upload_form" }
                                \cup { RouteResponse(e) : e \in OtherFailures })


\* the download of the table failed: every attempt met a network error or a
\* rate-limit response
DownloadFailed == download_result \in { "WahapediaDownloadError", "ConnectionError" }

\* C19: when the download of a table fails while a previously downloaded copy
\* exists, that copy is still on disk with its old content and the report is
\* produced from it; the failure is fatal only when no copy was ever there.
C19_FailedDownloadFallsBackToCopy ==
    (step = "done" /\ DownloadFailed /\ previous_copy
        /\ ~InvalidUpload(upload)) =>
            /\ table = "previous"
            /\ raised = "none"
            /\ report


\* what holds of the requests issued so far and of the way the routine ended
DownloadWithinAttempts ==
    /\ http_requests <= max_retries
    /\ download_result = "returned" => last_response = "content"
    /\ DownloadFailed => (http_requests = max_retries /\ last_response # "content")

\* C20: one call of the download routine issues at most max_retries HTTP
\* requests and always terminates, whatever network errors and rate-limit
\* responses it meets: it returns after a response that is not rate-limited
\* or raises its download error once the attempts are used up; the steps of
\* roster processing issue no request and are not repeated.
C20_DownloadTerminatesWithinAttempts ==
    /\ []DownloadWithinAttempts
    /\ (step = "download") ~> (download_result = "returned" \/ DownloadFailed)
    /\ [][/\ http_requests' # http_requests => step = "download"
          /\ step = "process" => step' = "done"]_vars

\* all attempts failed, a rate-limit response first and a network error last
C20_AttemptsUsedUpByBothFailures ==
    /\ app = "app" /\ previous_copy
    /\ DownloadFailed /\ http_requests = max_retries
    /\ table = "absent" /\ last_response = "network_error"

-----------------------------------------------------------------------------
(* Forces whose catalogue names the faction by another name *)

AdeptusAstartes == W(<<"Adeptus", "Astartes">>)

FactionUltramarines == W(<<"Faction:", "Ultramarines">>)

\* the catalogue names no faction of the table; a unit carries the chapter
\* as a keyword and no "Chapter" selection is made
ForceAstartes ==
    Force(AdeptusAstartes,
          << SelDetachment(GladiusTaskForce),
             Sel(<<"Captain">>, << <<"Character">>, FactionUltramarines >>, << >>),
             SelIntercessors >>)

\* the catalogue names the faction by its alias and the chapter by its name
ForceUltramarines ==
    Force(<<"Imperium", " - ">> \o AdeptusAstartes \o <<" - ", "Ultramarines">>,
          << SelDetachment(GladiusTaskForce), SelCaptain, SelIntercessors >>)

\* a force of the second faction of the table, with one of its own units
ForceNecrons ==
    Force(<<"Xenos", " - ", "Necrons">>,
          << Sel(W(<<"Necron", "Warriors">>), << <<"Battleline">> >>, << >>) >>)

FactionRosters ==
    SeqsUpTo({ ForceGladius, ForceAstartes, ForceUltramarines, ForceNecrons },
             MaxForces) \ { << >> }

FactionRequests == [roster : FactionRosters, form : RunForms]

InitFaction == request \in FactionRequests /\ InitState /\ FileRead

\* one upload of such forces served by one of the two handlers
SpecFaction == InitFaction /\ [][Next]_vars

\* a unit of the force carries the keyword
CarriesKeyword(force, keyword) ==
    \E k \in DOMAIN force.selections : InList(keyword, force.selections[k].categories)

\* C22: a force with catalogue name "Adeptus Astartes", which matches no
\* faction name of the table, and a unit that carries the keyword
\* "Faction: Ultramarines", renamed to "Space Marines" by the rename table,
\* resolves to the faction "Space Marines".
C22_KeywordSubfactionResolvesFaction ==
    Served =>
        \A f \in DOMAIN request.roster :
            (/\ request.roster[f].catalogueName = AdeptusAstartes
             /\ CarriesKeyword(request.roster[f], FactionUltramarines)
             /\ subfaction_rename_dict(<<"Ultramarines">>) = SpaceMarines)
                => ResolvedFaction(f).name = SpaceMarines

\* the cleaned label the serving handler compares for force f of the upload
CleanedLabel(f) ==
    IF pc = "legacy" THEN cat_name_clean_lower(request.roster[f])
    ELSE CatalogueClean(request.roster[f].catalogueName)

\* the rows of the faction table whose name contains the label or is
\* contained in it, without regard to case
SubstringMatches(label) ==
    { i \in DOMAIN _factions_dict :
        \/ Contains(label, Lower(_factions_dict[i].name))
        \/ Contains(Lower(_factions_dict[i].name), label) }

\* C27: when some faction name contains the cleaned label of the force or is
\* contained in it, the resolved faction is the first such faction in the
\* order of the table; an alias decides only when no faction passes that test.
C27_FirstSubstringMatchWins ==
    Served =>
        \A f \in DOMAIN request.roster :
            SubstringMatches(CleanedLabel(f)) # {} =>
                \E i \in SubstringMatches(CleanedLabel(f)) :
                    /\ \A j \in SubstringMatches(CleanedLabel(f)) : i <= j
                    /\ ResolvedFaction(f) = _factions_dict[i]

\* the datasheets the serving handler matched to the units of force f
MatchedDatasheets(f) ==
    IF pc = "legacy"
    THEN LET units == _find_units(_find_faction(request.roster), request.roster)[f]
         IN  { d \in DOMAIN _datasheets_dict :
                 \E u \in DOMAIN units : units[u] = _datasheets_dict[d] }
    ELSE LET units == _extract_unit_data(roster_xml_to_domain(request.roster))[f]
         IN  { d \in DOMAIN _datasheets_dict :
                 \E u \in DOMAIN units : units[u].datasheet_id = _datasheets_dict[d].id }

\* C28: every datasheet matched to a unit of a force has the faction id of
\* the faction resolved for the force or of that faction's parent; a
\* datasheet of another faction with the same name is not matched.
C28_MatchedDatasheetIsOfOwnFaction ==
    Served =>
        \A f \in DOMAIN request.roster : \A d \in MatchedDatasheets(f) :
            \/ _datasheets_dict[d].faction_id = ResolvedFaction(f).id
            \/ /\ ResolvedFaction(f).parent_id # ""
               /\ _datasheets_dict[d].faction_id = ResolvedFaction(f).parent_id

\* the variant the selections of the force alone give
OwnVariant(force) == _find_army_of_renown(<< force >>)[1]

\* C29: in the legacy parser the variant detected for a force is the one its
\* own selections give: a force with no variant selection has a null variant
\* and no rule whose type contains a known variant name in its output, also
\* after an earlier force of the roster that selected a variant.
C29_VariantIsOfOwnForce ==
    pc = "legacy" =>
        \A f \in DOMAIN request.roster :
            /\ DetectedVariant(f) = OwnVariant(request.roster[f])
            /\ ~Truthy(OwnVariant(request.roster[f])) =>
                   \A s \in Stratagems : IsVariantTyped(s) => ~LegacyForceLists(f, s)

\* every rule of the flat list is named under a phase of a force
\* and has a phase string that yields a canonical phase
FlatRulesHavePhase(flat, phases) ==
    \A s \in Stratagems :
        InFlatList(flat, s) =>
            /\ \E f \in DOMAIN phases : ListedIn(phases[f], s)
            /\ _normalize_phases(s.phase) # << >>

\* C30: every rule in the returned flat rule list has its name listed under
\* at least one phase of the phase mapping of at least one force of the same
\* result; a rule with no canonical phase is not in the flat list.
C30_FlatRulesAreListedUnderPhase ==
    /\ pc = "legacy" =>
           FlatRulesHavePhase(legacy_result.stratagems, legacy_result.result_phase)
    /\ pc = "service" =>
           FlatRulesHavePhase(service_result.all_stratagems, service_result.phases)

-----------------------------------------------------------------------------
(* app/repositories/stratagem_repository.py : calls on one repository *)

MaxCalls == 6

\* the four caches of the repository
Caches ==
    [factions |-> _factions_cache, stratagems |-> _stratagems_cache,
     datasheets |-> _datasheets_cache,
     datasheet_stratagems |-> _datasheet_stratagems_cache]

\* `if self._..._cache is None`: the getter calls the loader of the service
CallsLoader(cache) == ~cache.loaded

\* a call, what it returned, whether it ran a loader, the caches it emptied
Call(op, value, loader, emptied) ==
    [op |-> op, value |-> value, loader |-> loader, emptied |-> emptied]

\* initialize(): the dataset service reports an update ("True"), reports
\* none ("False"), or fails, which the repository raises as its own error
call_initialize(outcome) ==
    /\ calls < MaxCalls
    /\ \E cleared \in { initialize(Caches, outcome = "True") } :
           /\ _factions_cache' = cleared.factions
           /\ _stratagems_cache' = cleared.stratagems
           /\ _datasheets_cache' = cleared.datasheets
           /\ _datasheet_stratagems_cache' = cleared.datasheet_stratagems
           /\ loader_calls' = IF cleared = _clear_caches
                              THEN [c \in CacheNames |-> 0] ELSE loader_calls
    /\ last_call' = Call("initialize", outcome, FALSE,
                         { c \in CacheNames : Caches[c].loaded /\ ~Caches'[c].loaded })
    /\ calls' = calls + 1
    /\ UNCHANGED << request, pc, served, _request_options, _roster_list,
                    _full_stratagems_list, _empty_stratagems_list, ignore_phases_list,
                    current_army_of_renown, legacy_result, service_result, log >>
    /\ UNCHANGED << upload_vars, refresh_vars, threads >>

\* what every unfiltered getter does besides its own cache
Getter(name) ==
    /\ calls < MaxCalls
    /\ loader_calls' = [loader_calls EXCEPT
                           ![name] = IF CallsLoader(Caches[name]) THEN @ + 1 ELSE @]
    /\ last_call' = Call(name, "rows", CallsLoader(Caches[name]), { })
    /\ calls' = calls + 1
    /\ UNCHANGED << request, pc, served, _request_options, _roster_list,
                    _full_stratagems_list, _empty_stratagems_list, ignore_phases_list,
                    current_army_of_renown, legacy_result, service_result, log >>
    /\ UNCHANGED << upload_vars, refresh_vars, threads >>

call_get_all_factions ==
    /\ Getter("factions")
    /\ _factions_cache' = get_all_factions(_factions_cache)
    /\ UNCHANGED << _stratagems_cache, _datasheets_cache, _datasheet_stratagems_cache >>

call_get_all_stratagems ==
    /\ Getter("stratagems")
    /\ _stratagems_cache' = get_all_stratagems(_stratagems_cache)
    /\ UNCHANGED << _factions_cache, _datasheets_cache, _datasheet_stratagems_cache >>

call_get_all_datasheets ==
    /\ Getter("datasheets")
    /\ _datasheets_cache' = get_all_datasheets(_datasheets_cache)
    /\ UNCHANGED << _factions_cache, _stratagems_cache, _datasheet_stratagems_cache >>

call_get_datasheet_stratagems ==
    /\ Getter("datasheet_stratagems")
    /\ _datasheet_stratagems_cache' = get_datasheet_stratagems(_datasheet_stratagems_cache)
    /\ UNCHANGED << _factions_cache, _stratagems_cache, _datasheets_cache >>

InitRepository == request = [roster |-> << ForceGladius >>, form |-> EmptyForm]
                  /\ InitState /\ FileRead

NextRepository ==
    \/ \E outcome \in { "True", "False", "StratagemRepositoryError" } :
           call_initialize(outcome)
    \/ call_get_all_factions
    \/ call_get_all_stratagems
    \/ call_get_all_datasheets
    \/ call_get_datasheet_stratagems

\* any sequence of calls on one repository
SpecRepository == InitRepository /\ [][NextRepository]_vars

\* no loader has run twice since the caches were last cleared
LoaderRunsOncePerClear == \A c \in CacheNames : loader_calls[c] <= 1

\* a step calls a loader only from the getter of an empty cache
LoaderOnlyOnEmptyCache ==
    \A c \in CacheNames :
        loader_calls'[c] > loader_calls[c] => ~Caches[c].loaded /\ last_call'.op = c

\* a step empties a loaded cache only in an initialize() that returns True,
\* which leaves all four empty; any other initialize() leaves them as they are
ClearedExactlyOnUpdate ==
    /\ (\E c \in CacheNames : Caches[c].loaded /\ ~Caches'[c].loaded)
           => last_call'.op = "initialize" /\ last_call'.value = "True"
    /\ (calls' # calls /\ last_call'.op = "initialize" /\ last_call'.value = "True")
           => Caches' = _clear_caches
    /\ (calls' # calls /\ last_call'.op = "initialize" /\ last_call'.value # "True")
           => Caches' = Caches

-----------------------------------------------------------------------------
(* app/services/wahapedia_service.py, sublib/wahapedia_db.py : the dataset
   refresh each report request runs, step by step.  `app` says which of the
   two implementations runs; an entry of the file list is "fresh" when its
   download time is less than 24 hours old and "old" otherwise, a file that
   is not in the list included. *)

MaxVersion == 2

InFlight(p) == refresh[p].pc # "idle"

\* the file being updated: the marker inside _has_updates (i = 0), then the
\* files of the configured list in their order
CurrentFile(r) == IF r.i = 0 THEN LastUpdate ELSE csv_files[r.i]

\* what follows the update of the current file
Continue(r) ==
    IF r.i = 0 THEN [r EXCEPT !.pc = "read_new"]
    ELSE IF r.i < Len(csv_files) THEN [r EXCEPT !.i = @ + 1, !.pc = "check"]
    ELSE [r EXCEPT !.pc = "returned"]

\* an exception while the current file is handled: WahapediaService._has_updates
\* catches it and assumes an update, everywhere else it leaves the refresh
Raise(application, r) ==
    IF application = "app" /\ r.i = 0
    THEN [r EXCEPT !.found = "assumed", !.i = 1, !.pc = "check"]
    ELSE [r EXCEPT !.pc = "failed"]

\* reading the last_update field of the first row raises: no file, no row
\* (the service reads "" then), or the rows of an HTML page
ReadRaises(application, content) ==
    \/ content.kind \in { "absent", "html" }
    \/ application = "main" /\ content.kind = "partial"

\* a registration that writes a new list instead of the list that was read
_register_file_overwrites(list, filename) == [f \in Files |-> IF f = filename THEN "fresh" ELSE "old"]

\* _register_file_update / _register_file_list on the list that was read
_register_file_update(list, filename) == [list EXCEPT ![filename] = "fresh"]

Step(p, r) == refresh' = [refresh EXCEPT ![p] = r]

\* the files of a download order other than filename
Without(order, filename) == SelectSeq(order, LAMBDA g : g # filename)

NoRefreshVar == << roster_vars, upload_vars, datasheet_caches, repository_calls, threads >>

\* a report request arrives and calls initialize() / init_db()
start_refresh(p) ==
    /\ refresh[p].pc = "idle"
    /\ Step(p, [NoRefresh EXCEPT !.pc = "has_updates"])
    /\ overlapped' = (overlapped \/ \E q \in Requesters \ { p } : InFlight(q))
    /\ UNCHANGED << upstream, disk, file_list, lost, download_order >>
    /\ UNCHANGED NoRefreshVar

\* _has_updates / _wahapedia_has_update: no marker on disk means an update;
\* else the stored marker is read before it is updated
_has_updates(p) ==
    /\ refresh[p].pc = "has_updates"
    /\ Step(p, IF disk[LastUpdate].kind = "absent"
               THEN [refresh[p] EXCEPT !.found = "assumed", !.i = 1, !.pc = "check"]
               ELSE IF ReadRaises(app, disk[LastUpdate])
               THEN Raise(app, refresh[p])
               ELSE [refresh[p] EXCEPT !.old = disk[LastUpdate], !.pc = "check"])
    /\ UNCHANGED << upstream, disk, file_list, overlapped, lost, download_order >>
    /\ UNCHANGED NoRefreshVar

\* _update_csv_file / _check_csv: a file that exists and has a fresh entry in
\* the file list is left alone
_update_csv_file(p) ==
    /\ refresh[p].pc = "check"
    /\ Step(p, IF /\ disk[CurrentFile(refresh[p])].kind # "absent"
                  /\ file_list[CurrentFile(refresh[p])] = "fresh"
               THEN Continue(refresh[p])
               ELSE [refresh[p] EXCEPT !.pc = "download"])
    /\ UNCHANGED << upstream, disk, file_list, overlapped, lost, download_order >>
    /\ UNCHANGED NoRefreshVar

\* _download_file: open(save_path, "wb") after the response has arrived
open_save_path(p) ==
    /\ refresh[p].pc = "download"
    /\ disk' = [disk EXCEPT ![CurrentFile(refresh[p])] = Truncated]
    /\ Step(p, [refresh[p] EXCEPT !.pc = "write"])
    /\ UNCHANGED << upstream, file_list, overlapped, lost, download_order >>
    /\ UNCHANGED NoRefreshVar

\* the content of the response is written: the table, or the small HTML
\* page of the rate limit
write_response(p, kind) ==
    /\ refresh[p].pc = "write"
    /\ disk' = [disk EXCEPT ![CurrentFile(refresh[p])] =
                   IF kind = "table" THEN Table(upstream) ELSE RateLimitPage]
    /\ Step(p, [refresh[p] EXCEPT !.pc = IF kind = "table" THEN "register"
                                         ELSE "rate_limited"])
    /\ UNCHANGED << upstream, file_list, overlapped, lost, download_order >>
    /\ UNCHANGED NoRefreshVar

\* the service removes the page before it waits; wahapedia_db leaves it
rate_limited(p) ==
    /\ refresh[p].pc = "rate_limited"
    /\ disk' = IF app = "app" THEN [disk EXCEPT ![CurrentFile(refresh[p])] = Absent]
               ELSE disk
    /\ Step(p, [refresh[p] EXCEPT !.pc = "retry"])
    /\ UNCHANGED << upstream, file_list, overlapped, lost, download_order >>
    /\ UNCHANGED NoRefreshVar

\* the next attempt
retry_download(p) ==
    /\ refresh[p].pc = "retry"
    /\ Step(p, [refresh[p] EXCEPT !.pc = "download"])
    /\ UNCHANGED << upstream, disk, file_list, overlapped, lost, download_order >>
    /\ UNCHANGED NoRefreshVar

\* the attempts are used up, by request errors before anything is written or
\* by rate-limit pages
download_fails(p) ==
    /\ refresh[p].pc \in { "download", "retry" }
    /\ Step(p, Raise(app, refresh[p]))
    /\ UNCHANGED << upstream, disk, file_list, overlapped, lost, download_order >>
    /\ UNCHANGED NoRefreshVar

\* _register_file_update / _register_file_list: json.load of the list
read_file_list(p) ==
    /\ refresh[p].pc = "register"
    /\ Step(p, [refresh[p] EXCEPT !.copy = file_list, !.pc = "register_write"])
    /\ UNCHANGED << upstream, disk, file_list, overlapped, lost, download_order >>
    /\ UNCHANGED NoRefreshVar

\* json.dump of the list that was read, with the entry of the current file
write_file_list(p) ==
    /\ refresh[p].pc = "register_write"
    /\ file_list' = _register_file_update(refresh[p].copy, CurrentFile(refresh[p]))
    /\ lost' = (lost \/ \E g \in Files \ { CurrentFile(refresh[p]) } :
                            file_list'[g] # file_list[g])
    /\ download_order' = Append(Without(download_order, CurrentFile(refresh[p])),
                                CurrentFile(refresh[p]))
    /\ Step(p, Continue([refresh[p] EXCEPT
                            !.copy = NoRefresh.copy,
                            !.downloaded = IF refresh[p].i = 0 THEN @
                                           ELSE @ \cup { CurrentFile(refresh[p]) }]))
    /\ UNCHANGED << upstream, disk, overlapped >>
    /\ UNCHANGED NoRefreshVar

\* _has_updates: the marker is read again and compared with the old one
compare_last_update(p) ==
    /\ refresh[p].pc = "read_new"
    /\ Step(p, IF ReadRaises(app, disk[LastUpdate]) THEN Raise(app, refresh[p])
               ELSE IF refresh[p].old # disk[LastUpdate]
               THEN [refresh[p] EXCEPT !.found = "differs", !.i = 1, !.pc = "check"]
               ELSE [refresh[p] EXCEPT !.pc = "returned"])
    /\ UNCHANGED << upstream, disk, file_list, overlapped, lost, download_order >>
    /\ UNCHANGED NoRefreshVar

\* the refresh has returned: the service reads tables for every request,
\* parse_battlescribe calls init_parse only when init_db returned True
load_tables(p) ==
    /\ refresh[p].pc = "returned"
    /\ Step(p, IF app = "app" \/ refresh[p].downloaded # { }
               THEN [refresh[p] EXCEPT !.pc = "load"]
               ELSE NoRefresh)
    /\ UNCHANGED << upstream, disk, file_list, overlapped, lost, download_order >>
    /\ UNCHANGED NoRefreshVar

\* the request is answered, with the report or with the error
request_ends(p) ==
    /\ refresh[p].pc \in { "load", "failed" }
    /\ Step(p, NoRefresh)
    /\ UNCHANGED << upstream, disk, file_list, overlapped, lost, download_order >>
    /\ UNCHANGED NoRefreshVar

\* between two requests the n oldest download times of the list become more
\* than 24 hours old (a refresh takes far less than a day)
day_passes(n) ==
    /\ \A p \in Requesters : ~InFlight(p)
    /\ file_list' = [f \in Files |->
                        IF \E k \in 1..n : download_order[k] = f THEN "old"
                        ELSE file_list[f]]
    /\ download_order' = SubSeq(download_order, n + 1, Len(download_order))
    /\ UNCHANGED << upstream, disk, refresh, overlapped, lost >>
    /\ UNCHANGED NoRefreshVar

\* the site publishes a new version of the dataset
site_updates ==
    /\ upstream < MaxVersion
    /\ upstream' = upstream + 1
    /\ UNCHANGED << disk, file_list, refresh, overlapped, lost, download_order >>
    /\ UNCHANGED NoRefreshVar

InitRefresh ==
    /\ request = [roster |-> << ForceGladius >>, form |-> EmptyForm]
    /\ InitState
    /\ app \in { "app", "main" } /\ caller = "route"
    /\ upload = [ext |-> ".ros", zip |-> FALSE, member |-> "none", content |-> "roster"]
    /\ previous_copy = FALSE /\ table = "absent"
    /\ step = "process"
    /\ attempt = 0 /\ http_requests = 0
    /\ last_response = "none" /\ download_result = "none"
    /\ raised = "none" /\ report = FALSE /\ response = "none"

\* the next step of request p
RequestStep(p) ==
    \/ start_refresh(p)
    \/ _has_updates(p)
    \/ _update_csv_file(p)
    \/ open_save_path(p)
    \/ \E kind \in { "table", "html" } : write_response(p, kind)
    \/ rate_limited(p)
    \/ retry_download(p)
    \/ download_fails(p)
    \/ read_file_list(p)
    \/ write_file_list(p)
    \/ compare_last_update(p)
    \/ load_tables(p)
    \/ request_ends(p)

NextRefresh ==
    \/ RequestStep(1)
    \/ \E n \in 1..Len(download_order) : day_passes(n)
    \/ site_updates

\* report requests on a new installation, one after the other, while time
\* passes and the site publishes new versions
SpecRefresh == InitRefresh /\ [][NextRefresh]_vars

NextConcurrent == \E p \in Requesters : RequestStep(p)

\* report requests on a new installation with no lock between them: a
\* request can arrive while another is under way
SpecConcurrent == InitRefresh /\ [][NextConcurrent]_vars

\* the step in which the refresh of request p returns without error
ReturnsNow(p) == refresh[p].pc # "returned" /\ refresh'[p].pc = "returned"

\* C25: when the dataset initialization returns without error, every file of
\* the configured list exists on disk as a table and its download time in
\* the file list is less than one day old, also when the upstream marker was
\* found unchanged.
C25_TablesPresentAndFreshAfterInit ==
    [][\A p \in Requesters :
           ReturnsNow(p) =>
               \A f \in Files : disk'[f].kind = "table" /\ file_list'[f] = "fresh"]_vars

\* the data tables of the configured list
DataTables == Files \ { LastUpdate }

\* C26: when a refresh has found the upstream marker different from the
\* stored one and returns without error, every data table was downloaded
\* after that check, and no refresh returns without error while the stored
\* marker shows a newer version than a data table on disk.
C26_TablesFollowTheMarker ==
    [][\A p \in Requesters :
           ReturnsNow(p) =>
               /\ refresh'[p].found = "differs" => DataTables \subseteq refresh'[p].downloaded
               /\ \A f \in DataTables :
                      (disk'[LastUpdate].kind = "table" /\ disk'[f].kind = "table")
                          => disk'[f].version >= disk'[LastUpdate].version]_vars


\* the next step of request p reads file f: the marker in _has_updates, before
\* and after its update, and every table when the tables are loaded
Reads(p, f) ==
    \/ f = LastUpdate /\ refresh[p].pc = "has_updates" /\ disk[f].kind # "absent"
    \/ f = LastUpdate /\ refresh[p].pc = "read_new"
    \/ refresh[p].pc = "returned" /\ (app = "app" \/ refresh[p].downloaded # { })

\* request q is inside _download_file for file f and has left it truncated,
\* holding a rate-limit page, or removed
Damages(q, f) ==
    /\ CurrentFile(refresh[q]) = f
    /\ refresh[q].pc \in { "write", "rate_limited", "retry" }
    /\ disk[f].kind \in { "partial", "html", "absent" }

\* one request reads a file that another one is downloading
TornRead == \E p \in Requesters : \E q \in Requesters \ { p } : \E f \in Files :
                Reads(p, f) /\ Damages(q, f)

\* C23: a request reads a file that another request has truncated, partly
\* written or removed, or an entry of the file list is lost through the
\* read-modify-write of another request, only when two refreshes have been
\* under way at the same time; with at most one refresh in flight neither
\* state is reached.
C23_TornReadAndLostEntryOnlyWhenOverlapped == [](TornRead \/ lost => overlapped)

\* two requests overlap: an entry of the file list has been lost and a
\* request is about to read a file the other one is downloading
C23_TornReadAndLostEntry == lost /\ TornRead


-----------------------------------------------------------------------------
(* sublib/battle_parse.py : parse_battlescribe on two server threads *)

\* the uploads the two threads serve
ThreadForms ==
    { EmptyForm,
      [EmptyForm EXCEPT !.dont_show_before = OPTION_VALUE_ON,
                        !.show_core = OPTION_VALUE_ON,
                        !.show_empty = OPTION_VALUE_ON] }

ThreadRequests == [roster : { << ForceGladius >>, << ForceAnvilRenown >> }, form : ThreadForms]

\* the module state a thread finds or leaves
ModuleState ==
    LegacyState(_request_options, _empty_stratagems_list, _full_stratagems_list,
                ignore_phases_list, current_army_of_renown)

\* the thread is inside parse_battlescribe
Running(t) == threads[t].pc \notin { "idle", "done" }

ThreadStep(t, r) == threads' = [threads EXCEPT ![t] = r]

NoThreadVar == << request, pc, served, _factions_cache, _stratagems_cache, legacy_result,
                  service_result, log, upload_vars, datasheet_caches, repository_calls,
                  refresh_vars >>

\* a request arrives on thread t: _initialize_parsing (init_db() returns False)
thread_initialize_parsing(t, req) ==
    /\ threads[t].pc = "idle"
    /\ \E init \in { _initialize_parsing(req.form, FALSE, ModuleState) } :
           /\ _request_options' = init.options
           /\ _empty_stratagems_list' = init.empty
           /\ _full_stratagems_list' = init.full
           /\ ignore_phases_list' = init.ignored
           /\ current_army_of_renown' = init.renown
    /\ ThreadStep(t, [NoThread EXCEPT !.pc = "read", !.request = req, !.entry = ModuleState])
    /\ UNCHANGED _roster_list
    /\ UNCHANGED NoThreadVar

\* _read_ros_file and _prepare_roster_list
thread_prepare_roster_list(t) ==
    /\ threads[t].pc = "read"
    /\ _roster_list' = _prepare_roster_list(threads[t].request.roster)
    /\ ThreadStep(t, [threads[t] EXCEPT !.pc = "collect"])
    /\ UNCHANGED << _request_options, _empty_stratagems_list, _full_stratagems_list,
                    ignore_phases_list, current_army_of_renown >>
    /\ UNCHANGED NoThreadVar

\* _find_faction, _find_detachment, _find_units and _collect_all_stratagems
thread_collect_all_stratagems(t) ==
    /\ threads[t].pc = "collect"
    /\ \E wh_faction \in { _find_faction(_roster_list) } :
       \E wh_units \in { _find_units(wh_faction, _roster_list) } :
           ThreadStep(t, [threads[t] EXCEPT
               !.pc = "process",
               !.wh_faction = wh_faction,
               !.wh_units = wh_units,
               !.stratagems_data =
                   _collect_all_stratagems(wh_faction, wh_units, _request_options,
                                           _roster_list, _empty_stratagems_list)])
    /\ UNCHANGED << _request_options, _roster_list, _empty_stratagems_list,
                    _full_stratagems_list, ignore_phases_list, current_army_of_renown >>
    /\ UNCHANGED NoThreadVar

\* _process_forces
thread_process_forces(t) ==
    /\ threads[t].pc = "process"
    /\ \E done \in { _process_forces(threads[t].wh_faction, threads[t].wh_units,
                                     threads[t].stratagems_data, _request_options,
                                     _roster_list, _full_stratagems_list,
                                     current_army_of_renown, ignore_phases_list) } :
           /\ _full_stratagems_list' = done.full
           /\ current_army_of_renown' = done.renown
           /\ ThreadStep(t, [threads[t] EXCEPT !.pc = "return",
                                               !.result_phase = done.result_phase,
                                               !.result_units = done.result_units])
    /\ UNCHANGED << _request_options, _roster_list, _empty_stratagems_list,
                    ignore_phases_list >>
    /\ UNCHANGED NoThreadVar

\* _sort_phases_by_game_order and the return statement
thread_return(t) ==
    /\ threads[t].pc = "return"
    /\ ThreadStep(t, [threads[t] EXCEPT
           !.pc = "done",
           !.result = [result_phase |-> _sort_phases_by_game_order(threads[t].result_phase),
                       result_units |-> threads[t].result_units,
                       stratagems |-> _get_full_stratagems_list(_full_stratagems_list,
                                                                _request_options)]])
    /\ UNCHANGED << _request_options, _roster_list, _empty_stratagems_list,
                    _full_stratagems_list, ignore_phases_list, current_army_of_renown >>
    /\ UNCHANGED NoThreadVar

InitThreads == request = [roster |-> << ForceGladius >>, form |-> EmptyForm] /\ InitState /\ FileRead

ThreadNext(t) ==
    \/ \E req \in ThreadRequests : thread_initialize_parsing(t, req)
    \/ thread_prepare_roster_list(t)
    \/ thread_collect_all_stratagems(t)
    \/ thread_process_forces(t)
    \/ thread_return(t)

NextThreads == \E t \in Threads : ThreadNext(t)

\* one upload on each of two threads of the server, with no lock
SpecThreads == InitThreads /\ [][NextThreads]_vars

\* what the request of thread t returns when no other request runs, from
\* the module state it found
RunAlone(t) == LegacyRun(threads[t].request, FALSE, threads[t].entry).value

\* the module-level values a parse reads
SharedValues ==
    << _request_options, _roster_list, _full_stratagems_list, ignore_phases_list,
       current_army_of_renown >>

\* C24: while a legacy parse request is running no other request writes the
\* module-level values it reads (request options, roster force list, flat
\* stratagem-id list, ignore-phase list, current variant name), and each of
\* two interleaved requests returns the result it returns when run alone.
C24_InterleavedRequestsRunAsAlone ==
    /\ [](\A t \in Threads : threads[t].pc = "done" => threads[t].result = RunAlone(t))
    /\ [][\A t \in Threads : \A u \in Threads \ { t } :
              Running(t) /\ threads'[u] # threads[u] => UNCHANGED SharedValues]_vars

=============================================================================
